---------------------------- MODULE MCLocalSetting ----------------------------
(***************************************************************************)
(* A select the bridge remembers, a number the confirmed features extend   *)
(* by a value off its grid, a recipe and its button, a styler's course     *)
(* and a card.  The first database is in force for no model; the second    *)
(* extends the number, and the select by listing all of its values, and    *)
(* sets a condition; the third takes a value from the select and disables  *)
(* the recipe's button and the card; the last has a number with holes and a*)
(* feature that does not fit.                                              *)
(***************************************************************************)
EXTENDS LocalSetting

MCCapabilities == {"mode", "level", "recipe", "run", "course", "card"}
Select(values) == Plain("select", values)
Number == [Plain("number", {0, 1}) EXCEPT !.max = 1, !.step = 1]
Recipe == [Plain("draft", {0}) EXCEPT !.texts = {1}]
Button == [Plain("action", {0}) EXCEPT !.texts = {1}, !.from = "recipe"]
Card == [Plain("switch", {1}) EXCEPT !.factory = FALSE]

MCBundled ==
    [cap \in MCCapabilities |->
        CASE cap = "mode" -> Select({0, 1, 2}) [] cap = "level" -> Number [] cap = "recipe" -> Recipe
          [] cap = "run" -> Button [] cap = "course" -> Select({1}) [] cap = "card" -> Card]

NoFeature == [extends |-> FALSE, whole |-> FALSE, descriptor |-> Plain("select", {})]
Adds(values) == [NoFeature EXCEPT !.extends = TRUE, !.descriptor = Plain("select", values)]
Restates(values) == [Adds(values) EXCEPT !.whole = TRUE]
Row(control, confirmed, d, f) == [control |-> control, confirmed |-> confirmed, descriptor |-> d, feature |-> f]
On(cap) == Row("on", "absent", MCBundled[cap], NoFeature)
MCBundledFeatures == [cap \in {"level"} |-> Adds({3})]

WhenOpen == [valid |-> TRUE, all |-> {},
             byValue |-> [v \in {1} |-> {[semantic |-> "lock", values |-> {"open"}]}]]
Content(rollout, rows, conditions) ==
    [valid |-> TRUE, rollout |-> rollout, rows |-> rows, conditions |-> conditions]

MCDatabases ==
    [n \in {"release", "extended", "reduced", "broken"} |->
        CASE n = "release" -> Content("none", [c \in {} |-> {}], [c \in {} |-> {}])
          [] n = "extended" ->
                Content("ours", [c \in MCCapabilities |->
                    CASE c = "level" -> Row("on", "on", Number, Adds({3}))
                      [] c = "mode" -> Row("on", "on", Select({0, 1}), Restates({0, 1, 2}))
                      [] OTHER -> On(c)],
                        [c \in {"mode", "run"} |-> WhenOpen])
          [] n = "reduced" ->
                Content("all", [c \in MCCapabilities |->
                    CASE c = "mode" -> Row("on", "absent", Select({0, 1}), NoFeature)
                      [] c \in {"run", "card"} -> Row("off", "absent", MCBundled[c], NoFeature)
                      [] OTHER -> On(c)],
                        [c \in {"card"} |-> [WhenOpen EXCEPT !.valid = FALSE]])
          [] n = "broken" ->
                Content("ours", [c \in MCCapabilities |->
                    CASE c = "level" -> Row("on", "absent", [Number EXCEPT !.max = 2], NoFeature)
                      [] c = "course" -> Row("on", "on", Select({1}), Adds({1}))
                      [] OTHER -> On(c)],
                        [c \in {} |-> {}])]

MCOptions ==
    {[given |-> FALSE, broken |-> FALSE, stale |-> FALSE, listed |-> FALSE, scope |-> [c \in {} |-> {}]],
     [given |-> TRUE, broken |-> FALSE, stale |-> FALSE, listed |-> TRUE,
      scope |-> [c \in {"mode", "level", "card"} |-> IF c = "level" THEN {0} ELSE IF c = "mode" THEN {0, 1} ELSE {1}]]}

MCRequests == {<<"mode", 1>>, <<"level", 3>>, <<"course", 1>>, <<"card", 1>>}
=============================================================================
