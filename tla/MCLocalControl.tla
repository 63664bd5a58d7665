--------------------------- MODULE MCLocalControl ---------------------------
(***************************************************************************)
(* Two parts of the control of an air conditioner, which share no state:   *)
(* the router's, with small appliances, one of whose modes only carries the*)
(* temperature over; the entities' service calls.  A behaviour is one of   *)
(* one of them.                                                            *)
(***************************************************************************)
EXTENDS LocalControl, ClimateEntity, TLC

VARIABLE part       \* the part that moves

allVars == <<part, vars, climateVars>>

W(m, f, t, c) == [mode |-> m, fan |-> f, target |-> t, comfort |-> c]

MCOrdinary == {"cool", "dry"}
MCPreserving == {"dry"}
MCFans == {"low", "power"}
MCCelsius == {24}
MCComforts == {0}
MCWishes == {W({"dry"}, {}, {}, {}), W({}, {"low"}, {}, {}), W({}, {"power"}, {}, {}),
             W({"auto"}, {}, {}, {0})}

Grid(min, max, step) == [min |-> min, max |-> max, step |-> step]
MCDomain == [modes |-> {"cool", "auto"}, fans |-> MCFans, ranges |-> [m \in {"cool"} |-> Grid(18, 30, 2)],
             comfort |-> Grid(-2, 2, 1),
             interlocks |-> {[when |-> "fan", equals |-> "power", require |-> "mode", values |-> {"cool"}]}]

(* One ask of every kind.                                                  *)
MCAsks == {[do |-> "on", to |-> "on"], [do |-> "off", to |-> "off"], [do |-> "mode", to |-> "cool"],
           [do |-> "mode", to |-> "auto"], [do |-> "target", to |-> 24], [do |-> "reach", to |-> <<"cool", 24>>],
           [do |-> "fan", to |-> "low"],
           [do |-> "swing", to |-> "both"], [do |-> "comfort", to |-> 0]}

(* Off and on in cool, with the fan "power", in dry and auto; no power, no feed. *)
Read(p, m, f, a) == [healthy |-> TRUE, power |-> p, mode |-> m, fan |-> f, arg |-> a]
Down == [Read("on", "cool", "low", 24) EXCEPT !.healthy = FALSE]
MCReadings == {Down, Read("off", "cool", "low", 24), Read("on", "cool", "low", 26),
               Read("on", "cool", "power", Placeholder), Read("on", "dry", "low", 24),
               Read("on", "auto", "low", 0), Read("none", "cool", "low", 24)}

Shows(p, m) == [f \in Parts |-> CASE f = "power" -> p [] f = "mode" -> m [] f = "target" -> 26
                                  [] f = "fan" -> "high" [] OTHER -> "off"]
MCFirstStatuses == {Shows("off", "dry"), Shows("on", "cool"), Shows("on", "auto")}

(* What an entity does not read does not matter to it.                     *)
SmallClimate ==
    /\ ClimateInit
    /\ owner # "pat" => status = Shows("off", "dry")
    /\ owner = "pat" => reading = Down

NoClimate == SmallClimate /\ owner = "pat" /\ status = Shows("off", "dry")

NoControl == Init /\ unit.mode = "cool" /\ unit.fan = "low" /\ domain = Domain

(* Requests are alike, and so are service calls.                           *)
Symmetric == Permutations(Requests) \cup Permutations(ServiceCalls)

MCInit ==
    \/ part = "router" /\ Init /\ NoClimate
    \/ part = "climate" /\ SmallClimate /\ NoControl

MCNext ==
    /\ UNCHANGED part
    /\ \/ part = "router" /\ Next /\ UNCHANGED climateVars
       \/ part = "climate" /\ ClimateNext /\ UNCHANGED vars

MCSpec == MCInit /\ [][MCNext]_allVars
=============================================================================
