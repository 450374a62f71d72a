---------------------------- MODULE MCConnection ----------------------------
\* Values for Connection: every variant, the borders of the widths (with B = 4
\* they are at 2, 8 and 128), and nesting of everything in a container.
EXTENDS Connection, Json

Scalars ==
    {Null, [lit |-> "true"], [lit |-> "false"], [real |-> <<0, 1, 2, 3, 0, 1, 2, 3>>],
     [real |-> <<1, 0, 0, 0, 0, 0, 2, 1>>]}
      \cup {[int |-> n] : n \in {-129, -128, -9, -8, -3, -2, 0, 1, 2, 7, 8, 127, 128}}
      \cup {[string |-> s] : s \in {<<>>, <<2>>, <<1, 0>>, <<0, 0, 1, 1, 2, 2, 0, 1>>}}
      \cup {[bytes |-> s] : s \in {<<1>>, <<3, 0>>}}

Cells == {Null, [int |-> 2]}

Containers ==
    {[array |-> <<>>], [array |-> <<Null, [int |-> 8], [string |-> <<1>>]>>],
     [object |-> <<>>], [object |-> <<<<<<1>>, Null>>, <<<<1, 0>>, [bytes |-> <<2>>]>>>>],
     [array |-> <<[array |-> <<>>], [object |-> <<<<<<>>, [array |-> <<Null>>]>>>>]>>]}
      \cup {[keys |-> <<<<1>>, <<2>>>>, rows |-> <<<<a, Null>>, <<b, [array |-> <<a>>]>>>>] :
              a \in Cells, b \in Cells}
      \cup {[keys |-> <<>>, rows |-> <<<<>>, <<>>>>], [keys |-> <<<<0>>>>, rows |-> <<>>]}

AllValues == Scalars \cup Containers

\* Each kind of ending: a tag alone, a width, a text, a row.
SomeValues ==
    {Null, [int |-> 8], [bytes |-> <<3, 0>>],
     [keys |-> <<<<1>>, <<2>>>>, rows |-> <<<<Null, [int |-> 2]>>>>]}
=============================================================================
