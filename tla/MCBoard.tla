-------------------------------- MODULE MCBoard --------------------------------
EXTENDS Board

M(id, topic, reply) == [id |-> id, topic |-> topic, reply |-> reply]
\* Two identities with two contents each: a reply, and a message that would reply
\* to itself if it did not have to exist first.
Posted == {M("a", {}, {}), M("a", {"t"}, {"b"}), M("b", {"t"}, {}), M("b", {}, {"b"})}
Followed == {Everything, [topic |-> {"t"}, reply |-> {}]}
Nothing == M("none", {}, {})
=============================================================================
