----------------------------- MODULE MCRetiming -----------------------------
(***************************************************************************)
(* Small netlists, each in the two ways a line may end.                    *)
(***************************************************************************)
EXTENDS IterativeRetiming

p == <<"p">>
q == <<"q">>
o == <<"o">>
b == <<"b">>
c == <<"c">>
x == <<"x">>
y == <<"y">>
z == <<"z">>
w == <<"w">>
L == <<"L">>
f == <<"f">>
s == <<"s">>
g == <<"g">>
h == <<"h">>
m == <<"m">>
n == <<"n">>
u == <<"u">>
v == <<"v">>

Circuit(outs, latches, luts, glue) ==
  <<Inputs(<<p, q>>), Outputs(outs)>>
    \o [k \in DOMAIN latches |-> Latch(latches[k][1], latches[k][2])]
    \o [k \in DOMAIN luts |-> Lut(luts[k], glue)]

\* Two LUTs feed L, the flip-flop behind L feeds the output and one of them;
\* both can be passed in turn, backward and forward.
Two(glue) ==
  Circuit(<<o>>, << <<L, b>>, <<o, c>> >>,
          << <<c, p, x>>, <<c, b, y>>, <<x, y, L>>, <<b, c, o>> >>, glue)

\* Three inputs of L, read in pairs by other LUTs.
Three(glue) ==
  Circuit(<<o>>, << <<L, b>>, <<o, w>> >>,
          << <<p, q, x>>, <<p, w, y>>, <<x, y, w, L>>, <<x, w, b, o>> >>, glue)

\* Four inputs of L, the last one a LUT that reads the second.
Four(glue) ==
  Circuit(<<o>>, << <<L, b>>, <<z, f>>, <<x, s>> >>,
          << <<p, q, x>>, <<f, p, y>>, <<y, s, z>>, <<x, y, s, z, L>>, <<b, p, o>> >>, glue)

\* Latches before both inputs of L, which feeds two LUTs: a forward move, which
\* goes through if the lines are glued and is refused if not.
Fork(glue) ==
  Circuit(<<o>>, << <<x, f>>, <<y, s>> >>,
          << <<p, q, x>>, <<q, p, y>>, <<f, s, L>>, <<L, p, z>>, <<L, z, o>> >>, glue)

\* L reads the flip-flop behind it, as 126 of the 377 flip-flops of
\* benchmark/diffeq.blif have it.
Loop(glue) ==
  Circuit(<<o>>, << <<L, b>> >>, << <<p, q, x>>, <<x, b, L>>, <<b, p, o>> >>, glue)

\* A latch that can move forward over u, two that can move backward over m and
\* n, and paths from an input to the first.
Wide(glue) ==
  Circuit(<<o>>, << <<x, f>>, <<y, s>>, <<m, g>>, <<n, h>> >>,
          << <<p, q, x>>, <<q, p, y>>, <<f, s, u>>, <<u, p, v>>,
             <<v, x, m>>, <<v, y, n>>, <<g, h, o>> >>, glue)

\* L has one input and is read by a LUT with three besides the flip-flop.
Single(glue) ==
  Circuit(<<o>>, << <<L, b>> >>, << <<p, q, x>>, <<x, L>>, <<L, b, p, o>> >>, glue)

\* L has five inputs; the path may also go through w to u, which has two.
Five(glue) ==
  Circuit(<<o>>, << <<L, b>>, <<u, f>>, <<o, w>> >>,
          << <<p, q, x>>, <<p, w, y>>, <<x, y, f, w, b, L>>, <<x, y, u>>,
             <<f, w, b, o>> >>, glue)

Forks == {Fork(TRUE)}
Singles == {Single(FALSE)}
Fives == {Five(TRUE)}
Loops == {Loop(TRUE)}
Wides == {Wide(TRUE)}

All == UNION {{Two(glue), Three(glue), Four(glue), Fork(glue), Single(glue), Five(glue)} :
                glue \in BOOLEAN}
=============================================================================
