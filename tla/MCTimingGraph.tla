--------------------------- MODULE MCTimingGraph ---------------------------
EXTENDS TimingGraph

RowsOf(names, firsts, seconds) ==
  [kind : {"row"}, from : names, to : names, first : firsts, second : seconds]

Skip == [kind |-> "skip"]

\* Two flip-flops, the two names of the outside, rows out of order, rows that
\* repeat an edge, and a header in between.
OutRows  == RowsOf({"INPUT", "f1"}, {2, 4}, {0}) \cup
            {[kind |-> "row", from |-> "f1", to |-> "OUTPUT", first |-> 6, second |-> 2],
             [kind |-> "row", from |-> "f2", to |-> "f1", first |-> 2, second |-> 4]}
RsltRows == RowsOf({"DFF1", "p"}, {0, 2}, {2}) \cup
            {[kind |-> "row", from |-> "q", to |-> "DFF1", first |-> 4, second |-> 4],
             [kind |-> "row", from |-> "DFF2", to |-> "DFF2", first |-> 2, second |-> 0]}

Files(rows) == {<<Skip>> \o s : s \in UNION {[1 .. k -> rows] : k \in 1 .. 3}}

AllReports ==
  [format : {"out"}, lines : Files(OutRows), newline : BOOLEAN] \cup
  [format : {"rslt"}, lines : Files(RsltRows), newline : BOOLEAN]
=============================================================================
