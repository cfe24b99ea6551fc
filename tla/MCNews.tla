-------------------------------- MODULE MCNews --------------------------------
EXTENDS News
Q(client, edition, date, expected, content) ==
  [client |-> client, edition |-> edition, date |-> date,
   expected |-> expected, content |-> content]
\* An edition with a correction, the same one under another date, and one whose
\* identity is reused for a second edition.
Published == {Q("a", 1, 2, 0, "x"), Q("b", 1, 2, 1, "y"), Q("c", 1, 1, 0, "y"),
              Q("a", 2, 2, 0, "x"), Q("d", 2, 2, 0, "x")}
Nothing == Q("none", 0, 0, 0, "none")
Ranges == {[from |-> 1, to |-> 2], [from |-> 2, to |-> 2]}
=============================================================================
