---------------------------- MODULE RagelMachine ----------------------------
(***************************************************************************)
(* The vocabulary of the three checked-in state machines that Ragel        *)
(* generated (uri.rl.cc, http11_parser.rl.cc, httpclient_parser.rl.cc).    *)
(*                                                                         *)
(* The generated code is one `case N:` per state: a switch on the byte,    *)
(* then `goto stM` (move to M) or `goto trK` (run the actions of K, then   *)
(* move to M); a byte no branch takes goes to st0, the error state.  A     *)
(* state is modelled as a row, a function from the classes of bytes the    *)
(* state takes to <<M, actions>>; a class holds bytes that no state of the *)
(* machine tells apart.                                                    *)
(***************************************************************************)
LOCAL INSTANCE Naturals
LOCAL INSTANCE TLC

\* `goto stM` on every class of S, and a branch of several rows: the first
\* row that takes the byte decides.
Row(S, m) == [c \in S |-> <<m, <<>>>>]

\* `goto trK`: the actions of K in their order, then the move to m.
RowDo(S, m, acts) == [c \in S |-> <<m, acts>>]

\* A run of up to four hexadecimal digits in the states s..s+3, any of which
\* the row `end` may follow.
Hex4(hex, s, end) ==
    [i \in s..s+3 |-> IF i < s + 3 THEN Row(hex, i + 1) @@ end ELSE end]

\* "%" has been read: two hexadecimal digits in the states s and s+1, then m.
Pct(hex, s, m) == s :> Row(hex, s + 1) @@ (s + 1) :> Row(hex, m)

\* What the machine does with byte class c in the state whose row is given:
\* the bytes without a branch fall through to `goto st0`.
Branch(row, c) == IF c \in DOMAIN row THEN row[c] ELSE <<0, <<>>>>
=============================================================================
