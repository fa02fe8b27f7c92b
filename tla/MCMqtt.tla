------------------------------- MODULE MCMqtt -------------------------------
(***************************************************************************)
(* Instance of Mqtt for TLC.  Three users reduce to the same object id, two *)
(* of them to the same topic as well, and the id of a fourth is one that a  *)
(* suffix makes; a restart may find a user gone, or more of them than       *)
(* NewWithClient can tell apart.  shed is a folder of no user.  Two         *)
(* workers, so that the motion of a camera may be published again before    *)
(* its first timer fires; one outage, death and failed publication.         *)
(***************************************************************************)
EXTENDS Mqtt

MCTopicId == [n \in {"cam.1", "cam+1", "cam_1", "cam_1_2", "shed"} |-> IF n = "cam+1" THEN "cam_1" ELSE n]
MCBase == [n \in {"cam.1", "cam+1", "cam_1", "cam_1_2"} |-> IF n = "cam_1_2" THEN n ELSE "cam_1"]
MCRoster ==
  {<<"cam.1", "cam+1">>, <<"cam+1">>, <<"cam.1", "cam+1", "cam_1">>, <<"cam_1_2", "cam.1", "cam+1">>}
MCFolder == {"cam.1", "cam_1", "shed"}

MCMeans ==
  ("" :> {}) @@ ("person" :> {"person"}) @@ ("vehicle" :> {"vehicle"}) @@ ("fox" :> {"animal"})
    @@ ("dog walker" :> {"animal"}) @@ ("drone" :> {})

MCNotifyCategories == {"person", "animal", "drone"}

\* A fox, written in percent; somebody with a dog and a car; one percent of a
\* person and less, which reaches the threshold or does not; and what notifies
\* nobody: too unsure, of no category, of one nobody asked for, or no answer.
\* A percent is ten units.
MCAnswer ==
  {Reply("object in prose", {Seen("", "fox", 600, "percent"), Seen("person", "person", 599, "percent")}),
   Reply("object", {Seen("person", "dog walker", 900, "fraction"), Seen("vehicle", "", 800, "fraction")}),
   Reply("object", {Seen("person", "", 10, "percent")}),
   Reply("object", {Seen("person", "", 7, "percent")}),
   Reply("object", {Seen("person", "", 5, "percent")}),
   Reply("object", {Seen("person", "", 590, "percent")}),
   Reply("object", {Seen("drone", "drone", 990, "fraction")}),
   Reply("object", {Seen("vehicle", "", 990, "fraction")}),
   Reply("list", {Seen("person", "", 990, "fraction")}),
   Reply("noise", {})}
=============================================================================
