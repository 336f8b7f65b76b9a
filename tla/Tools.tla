------------------------------- MODULE Tools -------------------------------
(***************************************************************************)
(* The filters of user/: cat, cp, l2u, grep and more, each a loop over the *)
(* lines of its input, and what ucode.c makes of a line: getline() for a   *)
(* file or a pipe, gets() for a terminal, where what is typed is echoed    *)
(* and cooked.  A screen has Page lines instead of 24.                     *)
(***************************************************************************)
EXTENDS Naturals, FiniteSets, SequencesExt

CONSTANTS
  Tool,         \* the filters that are run
  Text,         \* what their input may hold
  Pattern,      \* what grep looks for, not empty
  Page          \* lines of a screen, at least one

VARIABLES
  tool,         \* the filter
  terminal,     \* its input is the terminal
  text, rest,   \* the input, and what has not been read of it
  out,          \* the lines it has written
  since,        \* lines that more has shown since the last key
  pc            \* reading (more: the first screen), waiting for a key (the last
                \* one that counts), done

vars == <<tool, terminal, text, rest, out, since, pc>>

Init ==
  /\ tool \in Tool /\ terminal \in IF tool \in {"cp", "more"} THEN {FALSE} ELSE BOOLEAN
  /\ text \in Text /\ rest = text
  /\ out = <<>> /\ since = 0
  /\ pc = IF tool = "more" THEN "first" ELSE "reading"
-----------------------------------------------------------------------------
\* Control-D is the end as well, of a terminal's input, for which read() returns
\* 0, and of a file's for getc(), if the rest of the integer of which read() sets
\* one byte happens to be zero: d says whether it is.
Zeroed == IF terminal THEN {TRUE} ELSE BOOLEAN
Ends(s, d) == {k \in 1..Len(s) : s[k] = "nl" \/ (d /\ s[k] = "eot")}
\* Whether there is a line.  (Mutant: what the end of the input cuts
\* short is one.)
FoundAtEof(s, d) == s # <<>>
Found(s, d) == Ends(s, d) # {} /\ s[Min(Ends(s, d))] = "nl"
After(s, d) == IF Ends(s, d) = {} THEN <<>> ELSE SubSeq(s, Min(Ends(s, d)) + 1, Len(s))

\* The loop of gets() over temp[ ]: \b takes the last character back.
Cooked(s) ==
  FoldLeft(LAMBDA line, c : IF c # "bs" THEN Append(line, c)
                            ELSE IF line = <<>> THEN line ELSE Front(line), <<>>, s)

\* The line in hand, and whether there was one: what the end of the input
\* cuts short counts for nothing.
Taken(d) == SubSeq(rest, 1, Min({Len(rest)} \cup Ends(rest, d)))
Line(d) == IF terminal THEN Cooked(Front(Taken(d))) ELSE Taken(d)

\* l2u's convert(), which leaves out z.
Upper(c) == CASE c = "a" -> "A" [] c = "b" -> "B" [] OTHER -> c
Convert(line) == [i \in DOMAIN line |-> Upper(line[i])]

\* How often grep finds the pattern in a line.  After a mismatch it goes on
\* with the next character, which is compared with the pattern's first.
Compared(m, c) ==
  IF c # Pattern[m.index] THEN [m EXCEPT !.index = 1]
  ELSE IF m.index = Len(Pattern) THEN [count |-> m.count + 1, index |-> 1]
  ELSE [m EXCEPT !.index = @ + 1]
Scan(line) ==
  LET m[i \in 0..Len(line)] ==
        IF i = 0 THEN [count |-> 0, index |-> 1] ELSE Compared(m[i - 1], line[i])
  IN  m
Matches(line) == Scan(line)[Len(line)].count

\* A line once for every match, and an empty one after it, or not.
Grep(line) == [i \in 1..Matches(line) |-> line] \o << <<>> >>

Written(line) ==
  CASE tool \in {"cat", "cp"} -> <<line>>
    [] tool = "l2u" -> <<Convert(line)>>
    [] tool = "grep" -> Grep(line)

\* One turn of the loop.
Filter ==
  /\ tool # "more" /\ pc = "reading"
  /\ \E d \in Zeroed :
       \/ /\ Found(rest, d) /\ rest' = After(rest, d)
          /\ out' = out \o Written(Line(d)) /\ UNCHANGED pc
       \/ ~Found(rest, d) /\ pc' = "done" /\ UNCHANGED <<rest, out>>
  /\ UNCHANGED <<tool, terminal, text, since>>
-----------------------------------------------------------------------------
(* more *)

\* outputpage(): a line that is there is shown.  When the screen is full one more is
\* read, and whatever came of that it waits for a key, as it does after the first
\* screen in any case.
Screen ==
  /\ pc \in {"first", "reading"} /\ tool = "more"
  /\ \E d \in Zeroed :
       /\ rest' = After(rest, d)
       /\ \/ /\ since < Page /\ Found(rest, d)
             /\ out' = Append(out, Line(d)) /\ since' = since + 1 /\ UNCHANGED pc
          \/ /\ since < Page /\ ~ Found(rest, d)
             /\ pc' = IF pc = "first" THEN "last" ELSE "done"
             /\ UNCHANGED <<out, since>>
          \/ since = Page /\ pc' = "key" /\ UNCHANGED <<out, since>>
  /\ UNCHANGED <<tool, terminal, text>>

\* Enter
KeyScreen ==
  /\ pc \in {"key", "last"} /\ pc' = "reading" /\ since' = 0
  /\ UNCHANGED <<tool, terminal, text, rest, out>>

\* Space: outputline().
KeyLine ==
  /\ pc \in {"key", "last"}
  /\ \E d \in Zeroed :
       /\ rest' = After(rest, d)
       /\ IF Found(rest, d) THEN out' = Append(out, Line(d)) /\ since' = 1 /\ pc' = "key"
          ELSE pc' = "done" /\ UNCHANGED <<out, since>>
  /\ UNCHANGED <<tool, terminal, text>>

\* Any other key, which only ends what has come to its end.
KeyOther ==
  /\ pc = "last" /\ pc' = "done"
  /\ UNCHANGED <<tool, terminal, text, rest, out, since>>

Next == Filter \/ Screen \/ KeyScreen \/ KeyLine \/ KeyOther
Spec == Init /\ [][Next]_vars
-----------------------------------------------------------------------------
\* Every variable holds a value of its type.
TypeOK ==
  /\ tool \in Tool /\ terminal \in BOOLEAN /\ text \in Text /\ IsSuffix(rest, text)
  /\ since \in 0..Page /\ pc \in {"first", "reading", "key", "last", "done"}

\* Where the complete lines of s end, which are all that a filter sees of it; the
\* line that ends at k, and its number.  And what may be taken for the whole input.
LineEnds(s) == {k \in 1..Len(s) : s[k] = "nl"}
LineTo(s, k) == SubSeq(s, Max({0} \cup {j \in LineEnds(s) : j < k}) + 1, k)
Ordinal(s, k) == Cardinality({j \in LineEnds(s) : j <= k})
Inputs == {text} \cup {SubSeq(text, 1, k - 1) : k \in {k \in 1..Len(text) : text[k] = "eot"}}
HasPattern(line) ==
  \E k \in 1..Len(line) : IsPrefix(Pattern, SubSeq(line, k, Len(line)))

\* What the filters do to a file, at their end: cat and cp copy it line by line, l2u
\* in capitals, up to the last newline, or up to that before a Control-D; grep shows
\* lines with the pattern only, and those that begin with it; more loses no more
\* than a line for each full screen.
FilteredAs(s) ==
  LET ends == LineEnds(s)
      lines == {LineTo(s, k) : k \in ends}
  IN  /\ tool \in {"cat", "cp", "l2u"} =>
           /\ Len(out) = Cardinality(ends)
           /\ \A k \in ends : out[Ordinal(s, k)] =
                IF tool = "l2u" THEN Convert(LineTo(s, k)) ELSE LineTo(s, k)
      /\ tool = "grep" =>
           /\ \A i \in DOMAIN out : out[i] # <<>> => out[i] \in lines /\ HasPattern(out[i])
           /\ \A line \in lines : IsPrefix(Pattern, line) => line \in Range(out)
      /\ tool = "more" => Cardinality(ends) - Len(out) <= Len(out) \div Page
Filtered == pc = "done" /\ ~terminal => \E s \in Inputs : FilteredAs(s)
=============================================================================
