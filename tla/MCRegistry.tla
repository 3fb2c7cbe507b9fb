----------------------------- MODULE MCRegistry -----------------------------
(* Instances of Registry for TLC. *)
EXTENDS Registry, TLC

Push(branch, paths) == [type |-> "push", name |-> branch, verb |-> "push", paths |-> paths]
Tag(tag, verb) == [type |-> "tag", name |-> tag, verb |-> verb, paths |-> {}]
Pull(verb) == [type |-> "pull", name |-> "topic", verb |-> verb, paths |-> {"a"}]

\* What may happen to a repository, before its conversion.
Raw == { Push("main", {"a"}), Push("main", {"b"}), Push("topic", {"a"}),
                [Push("main", {}) EXCEPT !.verb = "delete"],
                Tag("v1", "push"), Tag("v2", "push"), Tag("v1", "delete"), Tag("v1", "move") }
              \union { Pull(verb) : verb \in {"open", "push", "close", "merge", "reopen", "label"} }

\* w1 follows the default branch or certain tags, w2 certain paths.
Setting == [branch |-> "", tags |-> {}, patterns |-> {}, speculative |-> TRUE]
MCSettings == "w1" :> [Setting EXCEPT !.tags = {"v1"}] @@ "w2" :> [Setting EXCEPT !.patterns = {"a"}]

MCVersionOf == "v1" :> "1.0" @@ "v2" :> "2.0" @@ "x" :> NoVersion
MCRepoOf == "m1" :> "r1"

Symmetry == Permutations(Session)

Unconnected == [r \in Resource |-> NoKey]
Hooked == <<"p1", "r1">>
ViaApp == <<"p2", "r1">>

Nothing == [start |-> Unconnected, hosts |-> {"github"}, raws |-> {}, connects |-> 0, disconnects |-> 0,
            deletes |-> 0, failures |-> 0, removals |-> 0, events |-> 0, losses |-> 0, userRuns |-> 0,
            uploads |-> 0, cvDeletes |-> 0, crashes |-> 0]

Both == [Unconnected EXCEPT !["w1"] = Hooked, !["w2"] = Hooked]
One == [Unconnected EXCEPT !["w1"] = Hooked]
Two == [Unconnected EXCEPT !["w1"] = ViaApp, !["w2"] = Hooked]
Other == [Unconnected EXCEPT !["w2"] = Hooked]
PushMain == {Push("main", {"a"})}
TagV1 == {Tag("v1", "push")}
NoTagLeft == {Tag("v2", "delete"), Tag("x", "delete")}

\* Connections alone, several removals among them; every event on every kind of
\* provider; two pushes, runs by users and deletions; an event while connections
\* change; a module that is published while tags are pushed, or has no tags left;
\* providers that are deleted meanwhile; a pull request that changes nothing that
\* matters.
MCBudgets == {
  [Nothing EXCEPT !.start = One, !.connects = 1, !.deletes = 2],
  [Nothing EXCEPT !.connects = 1, !.raws = NoTagLeft, !.events = 2],
  [Nothing EXCEPT !.start = Other, !.raws = {[Pull("open") EXCEPT !.paths = {"b"}]}, !.events = 1],
  [Nothing EXCEPT !.connects = 3, !.disconnects = 1, !.failures = 1],
  [Nothing EXCEPT !.start = Both, !.connects = 1, !.disconnects = 3, !.failures = 1],
  [Nothing EXCEPT !.start = Both, !.disconnects = 1, !.deletes = 2],
  [Nothing EXCEPT !.start = One, !.connects = 1, !.disconnects = 2, !.removals = 1, !.crashes = 1],
  [Nothing EXCEPT !.start = Both, !.hosts = {"github", "gitlab", "forgejo"}, !.raws = Raw,
                  !.events = 1, !.failures = 1],
  [Nothing EXCEPT !.start = Two, !.raws = PushMain, !.events = 2, !.failures = 1],
  [Nothing EXCEPT !.start = Both, !.raws = PushMain, !.events = 1, !.userRuns = 1, !.cvDeletes = 1, !.losses = 1],
  [Nothing EXCEPT !.start = One, !.uploads = 2, !.userRuns = 2, !.cvDeletes = 1, !.disconnects = 1],
  [Nothing EXCEPT !.start = Both, !.raws = PushMain, !.events = 1, !.connects = 1, !.disconnects = 1],
  [Nothing EXCEPT !.start = Both, !.raws = TagV1, !.events = 1, !.deletes = 1, !.failures = 1],
  [Nothing EXCEPT !.raws = TagV1, !.connects = 1, !.events = 1, !.failures = 1, !.crashes = 1],
  [Nothing EXCEPT !.start = One, !.raws = TagV1, !.connects = 1, !.events = 1, !.disconnects = 1] }
=============================================================================
