------------------------------ MODULE Grammar -------------------------------
(***************************************************************************)
(* What a Ragel rule matches, by partial derivatives.                      *)
(*                                                                         *)
(* A pattern is a sequence of terms that are matched one after the other.  *)
(* A term is one byte of a set of classes, a choice of patterns, a pattern *)
(* repeated any number of times, or the name of a rule of the grammar.     *)
(***************************************************************************)
LOCAL INSTANCE Naturals
LOCAL INSTANCE Sequences

One(classes) == <<"one", classes>>
Choice(patterns) == <<"choice", patterns>>
Many(pattern) == <<"many", pattern>>
Rule(name) == <<"rule", name>>

Byte(c) == One({c})
Maybe(pattern) == Choice({pattern, <<>>})
Some(pattern) == Append(pattern, Many(pattern))

\* n copies of a pattern.
RECURSIVE Times(_, _)
Times(n, pattern) == IF n = 0 THEN <<>> ELSE pattern \o Times(n - 1, pattern)

\* The patterns left after a byte of class c has been matched at the start of
\* pattern, in the grammar G, a function from rule names to patterns.
RECURSIVE After(_, _, _)
After(G, pattern, c) ==
    IF pattern = <<>> THEN {}
    ELSE LET term == Head(pattern)
             rest == Tail(pattern)
         IN  CASE term[1] = "one"    -> IF c \in term[2] THEN {rest} ELSE {}
               [] term[1] = "choice" -> UNION {After(G, p \o rest, c) : p \in term[2]}
               [] term[1] = "many"   -> After(G, term[2] \o pattern, c)
                                        \union After(G, rest, c)
               [] term[1] = "rule"   -> After(G, G[term[2]] \o rest, c)

\* The pattern matches the empty text.
RECURSIVE Empty(_, _)
Empty(G, pattern) ==
    \A i \in 1..Len(pattern) :
        LET term == pattern[i] IN
        CASE term[1] = "one"    -> FALSE
          [] term[1] = "choice" -> \E p \in term[2] : Empty(G, p)
          [] term[1] = "many"   -> TRUE
          [] term[1] = "rule"   -> Empty(G, G[term[2]])
=============================================================================
