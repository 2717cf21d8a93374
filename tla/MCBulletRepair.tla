--------------------------- MODULE MCBulletRepair ---------------------------
(* Model checking BulletRepair: two lines that share three keywords.  A bullet *)
(* is known by the keywords in it and by how far its length is out of range;   *)
(* an answer holds at most one text, which may come to nothing.                *)
EXTENDS BulletRepair

Texts == {<< <<>>, 0>>, << <<1, 2>>, 0>>, << <<1, 2>>, 7>>, << <<1, 2, 3>>, 0>>,
          << <<3>>, 0>>, << <<3>>, 7>>}
ExcessOf == [t \in Texts |-> t[2]]
WordsOf == [t \in Texts |-> t[1]]
BrandNames == {<< <<1, 2>>, 0>>, << <<3>>, 7>>}
OneOrNone == {{}} \cup {{t} : t \in Texts \cup {Nothing}}
=============================================================================
