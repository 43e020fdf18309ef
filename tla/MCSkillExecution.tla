-------------------------- MODULE MCSkillExecution --------------------------
(***************************************************************************)
(* Semantic programs for the arm of MCPlanningPipeline.  Object "a" can be *)
(* picked at 3 and placed at 1, object "b" picked at 1; the grasp of the   *)
(* default object is beyond the arm's dead zone, so its plan fails.  Robot *)
(* "r2" has a "press" of its own, with another contract.                   *)
(***************************************************************************)
EXTENDS MCPlanningPipeline, SkillExecution

MCGrasps ==
  ("a" :> [approach |-> At(1, 0), grasp |-> At(3, 0), retreat |-> At(1, 0)]) @@
  ("b" :> [approach |-> At(3, 1), grasp |-> At(1, 1), retreat |-> At(3, 1)]) @@
  (DefaultObject :>
     [approach |-> At(6, 0), grasp |-> At(3, 0), retreat |-> At(6, 0)])

MCPlacements ==
  <<"a", "l">> :> [approach |-> At(3, 0), drop |-> At(1, 1), retreat |-> At(3, 1)]

MCLocationPose == "l" :> At(6, 0)
MCHomePose == At(1, 0)

Native(pre, post) ==
  [implementation |-> "native", fragment |-> <<>>, pre |-> pre, post |-> post]
Fragment(fragment, pre, post) ==
  [implementation |-> "program", fragment |-> fragment, pre |-> pre, post |-> post]

MCGlobalSkills ==
  ("pick" :> Native(<<"GripperOpen">>, <<"GripperClosed", "ObjectAttached">>)) @@
  ("place" :> Native(<<"ObjectAttached">>, <<"GripperOpen">>)) @@
  ("look" :> Native(<<"RobotAt">>, <<>>)) @@
  ("rest" :> Fragment(<<[kind |-> "WaitSignal"], [kind |-> "Skill"]>>,
                      <<>>, <<"GripperOpen">>)) @@
  ("press" :> Fragment(<<[kind |-> "Motion"], [kind |-> "Wait", amount |-> 1],
                         [kind |-> "SetSignal", amount |-> 1]>>,
                       <<"GripperOpen">>, <<"GripperClosed">>))

MCRobotSkills ==
  <<"r2", "press">> :> Fragment(<<[kind |-> "SetSignal", amount |-> 0]>>,
                                <<"GripperClosed">>, <<"GripperOpen">>)

MCSupported ==
  ("r1" :> {"pick", "place", "look", "rest", "press"}) @@ ("r2" :> {"pick", "press"})

MCContexts == {<<"r1", NoRobot>>, <<"r1", "r1">>, <<"r1", "r2">>}

Skill(skill, arguments) ==
  [kind |-> "Skill", origin |-> 1, skill |-> skill, arguments |-> arguments]
Skills ==
  {Skill("pick", <<"a">>), Skill("pick", <<>>), Skill("place", <<"a", "l">>),
   Skill("place", <<"a">>)} \cup {Skill(s, <<>>) : s \in {"look", "rest", "press", "dance"}}

Pick(object) == [kind |-> "Pick", origin |-> 1, object |-> object]
Handling ==
  {Pick("a"), Pick("b")} \cup
  [kind : {"Place"}, origin : {1}, object : {"a", "b"}, destination : {"l"}]

Operations ==
  Skills \cup Handling \cup
  [kind : {"MoveTo"}, origin : {1}, destination : {"l", "nowhere"}] \cup
  {[kind |-> "Wait", origin |-> 1, amount |-> 2], [kind |-> "Home", origin |-> 1]}

Numbered(list) == [i \in DOMAIN list |-> [list[i] EXCEPT !.origin = i]]
Triples(S) == {Numbered(<<a, b, c>>) : a, b, c \in S}
Pairs(S) == {Numbered(<<a, b>>) : a, b \in S}

MCIrs == Pairs(Operations) \cup Triples(Handling \cup {Skill("press", <<>>)})
MCSkillPrograms == Pairs(Skills) \cup Triples(Skills)

MCDefined == {"l"}
Instructions ==
  [kind : {"Move", "MoveLinear"}, target : {"l", "nowhere"}] \cup
  {[kind |-> "Retract"], [kind |-> "Wait", amount |-> 1], [kind |-> "SetSignal"],
   [kind |-> "Skill", skill |-> "press", arguments |-> <<>>]}
MCBodies == {<<a, b>> : a, b \in Instructions}

ASSUME MCProfilesMove == ProfilesMove
=============================================================================
