---------------------------- MODULE FeaturesProofs ----------------------------
(***************************************************************************)
(* Proofs about the parts of the features run: the local side of an entry  *)
(* (LocalSetup), for any bindings and any entries; and the feature database*)
(* with the menu that runs (FeatureRuntime), for any contents, entities,   *)
(* platforms and numbers of edits and failures.                            *)
(***************************************************************************)
EXTENDS FeatureRuntime, LocalSetup, SequenceTheorems, TLAPS

----------------------------------------------------------------------------
(* Set-up and teardown of the local side.                                  *)
AfterSetup == {"platforms", "up", "unloading", "rollback", "down"}
Stages == {"options", "database", "bindings", "control", "settings"} \cup Parted \cup AfterSetup
Maps == [providers : SUBSET Bindings, subscribers : SUBSET Bindings, reads : SUBSET Bindings,
         energy : SUBSET Bindings, eligible : SUBSET Bindings]
InHands == [doing : {"not yet", "now", "done"}, lines : SUBSET Bindings,
            feeds : SUBSET (Bindings \X Kinds)]

SetupTypeOK ==
    /\ facts \in Entries /\ at \in Stages
    /\ loaded \in SUBSET Parted /\ todo \in SUBSET Bindings
    /\ line \in [Bindings -> {"none", "starting", "running", "stopping", "stopped"}]
    /\ feeds \in SUBSET (Bindings \X Kinds)
    /\ data \in Maps /\ router \in BOOLEAN
    /\ stops \in [Stoppers -> InHands]
    /\ broken \in SUBSET (Parted \cup {"database"} \cup Bindings)

(* A stop begins late, and what it takes is gone at once.                  *)
Untouched == \A s \in Stoppers : stops[s].doing = "not yet"
StopsComeLate ==
    /\ ~Untouched => at \in AfterSetup /\ data = Empty
    /\ at \in {"unloading", "rollback", "down"} => ~Untouched

(* The stages up to a part, and whether the parts are loaded at all.       *)
UpTo(part) ==
    CASE part = "catalogue" -> {"options", "database", "catalogue"}
      [] part = "contract" -> {"options", "database", "catalogue", "authority", "pins", "contract"}
      [] part = "scope" -> {"options", "database", "catalogue", "authority", "pins", "contract",
                            "scope"}
      [] part = "domain" -> {"options", "database", "catalogue", "authority", "pins", "contract",
                             "scope", "confirmed", "domain"}
Weighty == {"catalogue", "contract", "domain"}
Reached == facts.valid /\ facts.bound # {} /\ "database" \notin broken

(* A part that was reached is loaded or broken.                            *)
LoadedOrBroken ==
    /\ at \in {"bindings"} \cup Parted => Reached
    /\ at = "options" => broken = {}
    /\ at = "database" => facts.valid /\ facts.bound # {} /\ "database" \notin broken
    /\ \A p \in Weighty :
          /\ at \in UpTo(p) => p \notin loaded /\ p \notin broken
          /\ at \notin UpTo(p) /\ Reached => (p \in loaded <=> p \notin broken)

(* What the scope allows once it was read.                                 *)
ScopeIsKept ==
    /\ at \in UpTo("scope") => data.eligible = {} /\ "scope" \notin broken
    /\ at = "scope" => "contract" \notin broken
    /\ at \notin UpTo("scope") /\ Reached /\ Untouched =>
          data.eligible = IF broken \cap {"contract", "scope"} = {} THEN Eligible ELSE {}
    /\ at \notin UpTo("scope") /\ Reached /\ broken \cap {"contract", "scope"} = {} =>
          facts.scope # "invalid"
    /\ ~Reached => data.eligible = {}

(* A binding before, while and after it is started.                        *)
Early == {"options", "database"} \cup Parted
Fed(b, k) == /\ b \in facts.identified
             /\ IF k = "energy" THEN b \in facts.metered
                ELSE "catalogue" \in loaded /\ b \in facts.readable /\ b \in facts.presence

Begun(b) ==
    /\ at \in Early => line[b] = "none" /\ b \notin broken
    /\ b \in todo => at = "bindings" /\ line[b] = "none" /\ b \in facts.bound
    /\ line[b] = "starting" => at = "bindings" /\ b \in facts.bound /\ Fits(b)
    /\ line[b] \in {"none", "starting"} =>
          b \notin data.providers /\ b \notin data.subscribers /\ b \notin broken
    /\ b \in data.providers => line[b] = "running"
    /\ at = "bindings" =>
          (b \in data.providers <=> Serves(b) /\ b \notin todo /\ line[b] # "starting")
    /\ at \notin Early \cup {"bindings"} /\ Untouched => (b \in data.providers <=> Serves(b))
    /\ \A k \in Kinds :
          /\ line[b] = "none" => <<b, k>> \notin feeds
          /\ line[b] = "starting" => (<<b, k>> \in feeds <=> Fed(b, k))
          /\ b \in data[k] <=> b \in data.providers /\ Fed(b, k)

(* What the router was started for.                                        *)
RouterIsKept ==
    at \in {"settings", "platforms", "up"} /\ Untouched =>
        (router <=> data.providers # {} /\ facts.wideq)

SetupInv ==
    /\ SetupTypeOK /\ StopsComeLate /\ LoadedOrBroken /\ ScopeIsKept /\ RouterIsKept /\ EverythingIsOwned
    /\ \A b \in Bindings : Begun(b)

LEMMA SetupInitHolds == SetupInit => SetupInv
  <1> SUFFICES ASSUME SetupInit
               PROVE  SetupInv
    OBVIOUS
  <1>0. /\ Stop("not yet") \in InHands /\ Stop("not yet").doing = "not yet"
        /\ Empty \in Maps
    BY DEF Stop, InHands, Empty, Maps
  <1>1. SetupTypeOK
    <2>1. stops \in [Stoppers -> InHands]
      BY <1>0 DEF SetupInit
    <2> QED
      BY <1>0, <2>1 DEF SetupInit, SetupTypeOK, Stages
  <1>2. Untouched /\ at = "options" /\ loaded = {} /\ broken = {} /\ data = Empty
    BY <1>0 DEF SetupInit, Untouched
  <1>3. data.providers = {} /\ data.subscribers = {} /\ data.reads = {} /\ data.energy = {}
        /\ data.eligible = {} /\ todo = {} /\ feeds = {} /\ \A b \in Bindings : line[b] = "none"
    BY DEF SetupInit, Empty
  <1>4. StopsComeLate /\ RouterIsKept /\ EverythingIsOwned
    BY <1>2, <1>3 DEF StopsComeLate, RouterIsKept, EverythingIsOwned
  <1>5. \A p \in Weighty \cup {"scope"} : at \in UpTo(p)
    BY <1>2 DEF Weighty, UpTo
  <1>6. LoadedOrBroken
    BY <1>2, <1>5 DEF LoadedOrBroken, Parted
  <1>7. ScopeIsKept
    BY <1>2, <1>3, <1>5 DEF ScopeIsKept
  <1>8. ASSUME NEW b \in Bindings PROVE Begun(b)
    <2>1. \A k \in Kinds : data[k] = {}
      BY <1>3 DEF Kinds
    <2> QED
      BY <1>2, <1>3, <2>1 DEF Begun, Early
  <1> QED
    BY <1>1, <1>4, <1>6, <1>7, <1>8 DEF SetupInv

(* What a step that goes on to the next stage leaves as it was.            *)
LEMMA GoesOn ==
    ASSUME SetupInv, facts' = facts, loaded' = loaded,
           UNCHANGED <<todo, line, feeds, data, stops>>,
           router' = IF at = "control" THEN data.providers # {} /\ facts.wideq ELSE router,
           \/ /\ at = "options" /\ ~(facts.valid /\ facts.bound # {})
              /\ at' = "control" /\ broken' = broken
           \/ /\ at = "options" /\ facts.valid /\ facts.bound # {}
              /\ at' \in {"database", "catalogue"} /\ broken' = broken
           \/ at = "database" /\ at' = "catalogue" /\ broken' = broken
           \/ at = "database" /\ at' = "control" /\ broken' = broken \cup {"database"}
           \/ at = "bindings" /\ at' = "control" /\ todo = {} /\ Starting = {} /\ broken' = broken
           \/ at = "control" /\ at' = "settings" /\ broken' = broken
           \/ at = "settings" /\ at' = "platforms" /\ broken' = broken
           \/ at = "platforms" /\ at' = "up" /\ broken' = broken
    PROVE  SetupInv'
  <1>1. SetupTypeOK'
    BY EntriesAssumption DEF SetupInv, SetupTypeOK, Stages, Parted, AfterSetup
  <1>2. StopsComeLate' /\ RouterIsKept'
    BY DEF SetupInv, StopsComeLate, RouterIsKept, Untouched, AfterSetup
  <1>3. LoadedOrBroken'
    BY DEF SetupInv, LoadedOrBroken, Reached, Weighty, UpTo, Parted
  <1>4. ScopeIsKept'
    BY DEF SetupInv, ScopeIsKept, LoadedOrBroken, Weighty, Reached, UpTo, Parted, Untouched, Eligible
  <1>5. EverythingIsOwned'
    BY DEF SetupInv, EverythingIsOwned, InHand, Begun, StopsComeLate, Untouched
  <1>6. ASSUME NEW b \in Bindings PROVE Begun(b)'
    <2>1. Fits(b)' = Fits(b) /\ \A k \in Kinds : Fed(b, k)' = Fed(b, k)
      BY DEF Fits, Fed
    <2>2. Begun(b) /\ LoadedOrBroken /\ StopsComeLate
      BY DEF SetupInv
    <2>3. /\ line[b]' = line[b] /\ UNCHANGED <<todo, data, feeds, stops>>
          /\ at' \in Early \cup {"bindings"} => at \in Early
      BY DEF Early, Parted
    <2>4. b \in broken' <=> b \in broken
      BY BindingsAssumption
    <2>5. CASE at \in Early /\ at' \in Early
      BY <2>1, <2>2, <2>3, <2>4, <2>5 DEF Begun, Early, Parted
    <2>6. CASE at \in Early /\ at' \notin Early
      <3>1. ~Serves(b)'
        BY <2>6 DEF Serves, Early, Parted, SetupInv, LoadedOrBroken, Reached
      <3>2. b \notin data.providers /\ at' = "control" /\ line[b] = "none"
        BY <2>2, <2>6 DEF Begun, Early, Parted
      <3> QED
        BY <2>1, <2>2, <2>3, <2>4, <3>1, <3>2 DEF Begun, Early, Parted
    <2>7. CASE at \notin Early
      <3>1. Serves(b)' = Serves(b) /\ at \notin Early /\ at' \notin Early \cup {"bindings"}
        BY <2>1, <2>7 DEF Serves, Early, Parted
      <3>2. Untouched' = Untouched /\ (at = "bindings" => b \notin todo /\ line[b] # "starting")
        BY <2>7 DEF Untouched, Early, Parted, Starting
      <3> QED
        BY <2>1, <2>2, <2>3, <2>4, <3>1, <3>2 DEF Begun
    <2> QED
      BY <2>5, <2>6, <2>7
  <1> QED
    BY <1>1, <1>2, <1>3, <1>4, <1>5, <1>6 DEF SetupInv

(* A part is loaded or broken, and the bindings wait for the last one.     *)
LEMMA LoadPartHolds == SetupInv /\ LoadPart => SetupInv'
  <1> SUFFICES ASSUME SetupInv, LoadPart
               PROVE  SetupInv'
    OBVIOUS
  <1>1. PICK works \in BOOLEAN :
           /\ at = "scope" => works = (facts.scope # "invalid")
           /\ loaded' = IF works THEN loaded \cup {at} ELSE loaded
           /\ broken' = IF works THEN broken ELSE broken \cup {at}
           /\ at' = Follows(at, works)
           /\ data' = IF at = "scope" /\ works THEN [data EXCEPT !.eligible = Eligible] ELSE data
           /\ todo' = IF at' = "bindings" THEN facts.bound ELSE todo
    BY DEF LoadPart
  <1>2. /\ at \in Parted /\ UNCHANGED <<facts, line, feeds, router, stops>>
        /\ Reached /\ Reached' /\ Untouched /\ Untouched'
    <2>1. at \in Parted /\ UNCHANGED <<facts, line, feeds, router, stops>>
      BY DEF LoadPart
    <2>2. Reached /\ Untouched
      BY <2>1 DEF SetupInv, LoadedOrBroken, StopsComeLate, Parted, AfterSetup
    <2> QED
      BY <1>1, <2>1, <2>2 DEF Reached, Untouched, Parted
  <1>3. /\ at' \in Parted \cup {"bindings"}
        /\ at' = "scope" => at = "contract" /\ works
        /\ \A p \in Weighty : IF at' \in UpTo(p) THEN at \in UpTo(p) /\ at # p
                              ELSE at \notin UpTo(p) \/ at = p
        /\ at' \in UpTo("scope") => at \in UpTo("scope") /\ at # "scope"
        /\ at' \notin UpTo("scope") =>
              at \notin UpTo("scope") \/ at = "scope" \/ (at = "contract" /\ ~works)
    <2>1. \/ at = "catalogue" /\ at' \in {"contract", "authority"}
          \/ at = "authority" /\ at' = "pins"
          \/ at = "pins" /\ at' = "contract"
          \/ at = "contract" /\ works /\ at' = "scope"
          \/ at = "contract" /\ ~works /\ at' = "domain"
          \/ at = "scope" /\ at' \in {"confirmed", "domain"}
          \/ at = "confirmed" /\ at' = "domain"
          \/ at = "domain" /\ at' \in {"extension", "bindings"}
          \/ at = "extension" /\ at' = "bindings"
      BY <1>1, <1>2 DEF Follows, AfterCatalogue, Parted
    <2>2. /\ at' \in Parted \cup {"bindings"}
          /\ at' = "scope" => at = "contract" /\ works
      BY <2>1 DEF Parted
    <2>3. ASSUME NEW p \in Weighty
          PROVE  IF at' \in UpTo(p) THEN at \in UpTo(p) /\ at # p
                 ELSE at \notin UpTo(p) \/ at = p
      <3>1. CASE p = "catalogue"
        BY <2>1, <3>1 DEF UpTo
      <3>2. CASE p = "contract"
        BY <2>1, <3>2 DEF UpTo
      <3>3. CASE p = "domain"
        BY <2>1, <3>3 DEF UpTo
      <3> QED
        BY <3>1, <3>2, <3>3 DEF Weighty
    <2>4. /\ at' \in UpTo("scope") => at \in UpTo("scope") /\ at # "scope"
          /\ at' \notin UpTo("scope") =>
                at \notin UpTo("scope") \/ at = "scope" \/ (at = "contract" /\ ~works)
      BY <2>1 DEF UpTo
    <2> QED
      BY <2>2, <2>3, <2>4
  <1>4. /\ facts.bound \in SUBSET Bindings
        /\ Eligible \in SUBSET Bindings \/ facts.scope = "invalid"
    <2>1. facts.bound \in SUBSET Bindings /\ facts.scoped \in SUBSET Bindings
          /\ facts.scope \in {"none", "listed", "stale", "invalid"}
      BY EntriesAssumption DEF SetupInv, SetupTypeOK
    <2> QED
      BY <2>1 DEF Eligible
  <1>5. /\ data' \in Maps
        /\ data'.providers = data.providers /\ data'.subscribers = data.subscribers
        /\ \A k \in Kinds : data'[k] = data[k]
        /\ data'.eligible = IF at = "scope" /\ works THEN Eligible ELSE data.eligible
    <2>1. data \in Maps
      BY DEF SetupInv, SetupTypeOK
    <2>2. at = "scope" /\ works => Eligible \in SUBSET Bindings
      BY <1>1, <1>4
    <2> QED
      BY <1>1, <2>1, <2>2 DEF Maps, Kinds
  <1>6. SetupTypeOK'
    BY <1>1, <1>2, <1>3, <1>4, <1>5 DEF SetupInv, SetupTypeOK, Stages
  <1>7. StopsComeLate' /\ RouterIsKept'
    BY <1>2, <1>3 DEF StopsComeLate, RouterIsKept, Parted
  <1>8. LoadedOrBroken'
    <2>1. \A p \in Weighty : (at \in UpTo(p))' = (at' \in UpTo(p))
      BY DEF UpTo
    <2>2. at' # "options" /\ at' # "database"
      BY <1>3 DEF Parted
    <2>3. ASSUME NEW p \in Weighty
          PROVE  IF at' \in UpTo(p) THEN p \notin loaded' /\ p \notin broken'
                 ELSE p \in loaded' <=> p \notin broken'
      <3>1. IF at \in UpTo(p) THEN p \notin loaded /\ p \notin broken
            ELSE p \in loaded <=> p \notin broken
        BY <1>2 DEF SetupInv, LoadedOrBroken
      <3>2. p \in UpTo(p)
        BY DEF UpTo, Weighty
      <3> QED
        BY <1>1, <1>3, <3>1, <3>2
    <2> QED
      BY <1>2, <2>1, <2>2, <2>3 DEF LoadedOrBroken
  <1>9. ScopeIsKept'
    <2>1. ScopeIsKept /\ Eligible' = Eligible /\ (UpTo("scope"))' = UpTo("scope")
      BY <1>2 DEF SetupInv, Eligible, UpTo
    <2>2. at = "scope" => "contract" \notin broken /\ "scope" \notin broken /\ data.eligible = {}
      BY <2>1 DEF ScopeIsKept, UpTo
    <2>3. at = "contract" => "scope" \notin broken /\ "contract" \notin broken /\ data.eligible = {}
      BY <2>1 DEF ScopeIsKept, UpTo, SetupInv, LoadedOrBroken, Weighty
    <2>4. at \in UpTo("scope") => data.eligible = {} /\ "scope" \notin broken
      BY <2>1 DEF ScopeIsKept
    <2>5. at \notin UpTo("scope") =>
             /\ data.eligible = IF broken \cap {"contract", "scope"} = {} THEN Eligible ELSE {}
             /\ broken \cap {"contract", "scope"} = {} => facts.scope # "invalid"
             /\ at # "contract" /\ at # "scope"
      BY <1>2, <2>1 DEF ScopeIsKept, UpTo
    <2>6. CASE at' \in UpTo("scope")
      BY <1>1, <1>2, <1>3, <1>5, <2>1, <2>3, <2>4, <2>6 DEF ScopeIsKept
    <2>7. CASE at' \notin UpTo("scope")
      <3>0. at' # "scope"
        BY <2>7 DEF UpTo
      <3>1. CASE at \notin UpTo("scope")
        BY <1>1, <1>2, <1>5, <2>1, <2>5, <2>7, <3>0, <3>1 DEF ScopeIsKept
      <3>2. CASE at = "scope"
        BY <1>1, <1>2, <1>5, <2>1, <2>2, <2>7, <3>0, <3>2 DEF ScopeIsKept
      <3>3. CASE at = "contract" /\ ~works
        BY <1>1, <1>2, <1>5, <2>1, <2>3, <2>7, <3>0, <3>3 DEF ScopeIsKept
      <3> QED
        BY <1>3, <2>7, <3>1, <3>2, <3>3
    <2> QED
      BY <2>6, <2>7
  <1>10. EverythingIsOwned'
    <2>1. \A f \in feeds : f[2] \in Kinds
      BY DEF SetupInv, SetupTypeOK
    <2>2. at' # "down"
      BY <1>3 DEF Parted
    <2> QED
      BY <1>2, <1>5, <2>1, <2>2 DEF SetupInv, EverythingIsOwned, InHand
  <1>11. ASSUME NEW b \in Bindings PROVE Begun(b)'
    <2>1. Begun(b)
      BY DEF SetupInv
    <2>2. /\ line[b] = "none" /\ b \notin todo /\ b \notin data.providers /\ b \notin data.subscribers
          /\ \A k \in Kinds : b \notin data[k] /\ <<b, k>> \notin feeds
      BY <1>2, <2>1 DEF Begun, Early, Parted
    <2>3. b \notin broken'
      BY <1>1, <1>2, <2>1, BindingsAssumption DEF Begun, Early
    <2>4. at' \in Early \cup {"bindings"} /\ (at' = "bindings" => ~(Serves(b)' /\ b \notin todo'))
      BY <1>1, <1>2, <1>3 DEF Early, Serves
    <2> QED
      BY <1>1, <1>2, <1>5, <2>2, <2>3, <2>4 DEF Begun, Early, Parted
  <1> QED
    BY <1>6, <1>7, <1>8, <1>9, <1>10, <1>11 DEF SetupInv

(* What the start of a binding leaves as it was.                           *)
LEMMA WhileStarting ==
    ASSUME SetupInv, at = "bindings", UNCHANGED <<facts, at, loaded, router, stops>>,
           NEW b \in Bindings, broken' = broken \/ broken' = broken \cup {b},
           todo' \in SUBSET Bindings, feeds' \in SUBSET (Bindings \X Kinds),
           line' \in [Bindings -> {"none", "starting", "running", "stopping", "stopped"}],
           data' \in Maps, data'.eligible = data.eligible
    PROVE  /\ SetupTypeOK' /\ StopsComeLate' /\ LoadedOrBroken' /\ ScopeIsKept' /\ RouterIsKept'
           /\ Untouched /\ Reached
  <1>1. SetupTypeOK'
    BY DEF SetupInv, SetupTypeOK
  <1>2. StopsComeLate' /\ RouterIsKept' /\ Untouched /\ Reached
    BY DEF SetupInv, StopsComeLate, RouterIsKept, Untouched, LoadedOrBroken, AfterSetup
  <1>3. \A x \in Parted \cup {"database"} : x \in broken' <=> x \in broken
    BY BindingsAssumption
  <1>4. Reached' = Reached
    BY <1>3 DEF Reached
  <1>5. LoadedOrBroken'
    BY <1>3, <1>4 DEF SetupInv, LoadedOrBroken, Parted, Weighty, UpTo
  <1>6. ScopeIsKept'
    BY <1>2, <1>3, <1>4 DEF SetupInv, ScopeIsKept, Parted, UpTo, Eligible, Untouched
  <1> QED
    BY <1>1, <1>2, <1>5, <1>6

LEMMA SkipHolds == ASSUME SetupInv, NEW b \in Bindings, Skip(b) PROVE SetupInv'
  <1>1. /\ at = "bindings" /\ UNCHANGED <<facts, at, loaded, line, feeds, data, router, stops, broken>>
        /\ todo' = todo \ {b} /\ ~Fits(b)
    BY DEF Skip
  <1>2. SetupTypeOK' /\ StopsComeLate' /\ LoadedOrBroken' /\ ScopeIsKept' /\ RouterIsKept' /\ Untouched
    BY <1>1, WhileStarting DEF SetupInv, SetupTypeOK
  <1>3. EverythingIsOwned'
    BY <1>1 DEF SetupInv, EverythingIsOwned, InHand
  <1>4. ASSUME NEW c \in Bindings PROVE Begun(c)'
    <2>1. Begun(c) /\ Serves(c)' = Serves(c) /\ Fits(c)' = Fits(c) /\ (c = b => ~Serves(c))
      BY <1>1 DEF SetupInv, Serves, Fits
    <2>2. \A k \in Kinds : Fed(c, k)' = Fed(c, k)
      BY <1>1 DEF Fed
    <2> QED
      BY <1>1, <2>1, <2>2 DEF Begun, Early, Parted
  <1> QED
    BY <1>2, <1>3, <1>4 DEF SetupInv

LEMMA StartHolds == ASSUME SetupInv, NEW b \in Bindings, Start(b) PROVE SetupInv'
  <1>1. /\ at = "bindings" /\ UNCHANGED <<facts, at, loaded, data, router, stops, broken>>
        /\ todo' = todo \ {b} /\ b \in todo /\ Fits(b)
        /\ line' = [line EXCEPT ![b] = "starting"] /\ feeds' = feeds \cup Providers(b)
    BY DEF Start
  <1>2. /\ line \in [Bindings -> {"none", "starting", "running", "stopping", "stopped"}]
        /\ feeds \in SUBSET (Bindings \X Kinds) /\ data \in Maps /\ todo \in SUBSET Bindings
        /\ Begun(b)
    BY DEF SetupInv, SetupTypeOK
  <1>3. Providers(b) \in SUBSET (Bindings \X Kinds)
    BY DEF Providers
  <1>4. \A c \in Bindings, k \in Kinds : <<c, k>> \in Providers(b) <=> c = b /\ Fed(b, k)
    BY DEF Providers, Fed
  <1>5. line' \in [Bindings -> {"none", "starting", "running", "stopping", "stopped"}]
    BY <1>1, <1>2
  <1>6. SetupTypeOK' /\ StopsComeLate' /\ LoadedOrBroken' /\ ScopeIsKept' /\ RouterIsKept' /\ Untouched
    BY <1>1, <1>2, <1>3, <1>5, WhileStarting
  <1>7. EverythingIsOwned'
    <2>1. \A f \in Providers(b) : line'[f[1]] = "starting"
      BY <1>1, <1>2 DEF Providers
    <2>2. \A c \in Bindings : line'[c] = IF c = b THEN "starting" ELSE line[c]
      BY <1>1, <1>2
    <2>3. \A f \in feeds : f[1] \in Bindings
      BY <1>2
    <2> QED
      BY <1>1, <2>1, <2>2, <2>3 DEF SetupInv, EverythingIsOwned, InHand
  <1>8. ASSUME NEW c \in Bindings PROVE Begun(c)'
    <2>1. Begun(c) /\ Serves(c)' = Serves(c) /\ Fits(c)' = Fits(c) /\ Fits(b)
      BY <1>1 DEF SetupInv, Serves, Fits
    <2>2. \A k \in Kinds : Fed(c, k)' = Fed(c, k)
      BY <1>1 DEF Fed
    <2>3. \A k \in Kinds : <<c, k>> \in feeds' <=> <<c, k>> \in feeds \/ (c = b /\ Fed(b, k))
      BY <1>1, <1>4
    <2>4. line'[c] = IF c = b THEN "starting" ELSE line[c]
      BY <1>1, <1>2
    <2>5. c = b => line[c] = "none" /\ c \in facts.bound
      BY <1>1, <1>2 DEF Begun
    <2> QED
      BY <1>1, <2>1, <2>2, <2>3, <2>4, <2>5 DEF Begun, Early, Parted
  <1> QED
    BY <1>6, <1>7, <1>8 DEF SetupInv

LEMMA StartedHolds == ASSUME SetupInv, NEW b \in Bindings, Started(b) PROVE SetupInv'
  <1> DEFINE d2 == [data EXCEPT !.providers = @ \cup {b}, !.subscribers = @ \cup {b},
                        !.reads = @ \cup Of(b, "reads"), !.energy = @ \cup Of(b, "energy")]
  <1>1. /\ line[b] = "starting" /\ UNCHANGED <<facts, at, loaded, todo, feeds, router, stops, broken>>
        /\ line' = [line EXCEPT ![b] = "running"] /\ data' = d2
    BY DEF Started
  <1>2. /\ line \in [Bindings -> {"none", "starting", "running", "stopping", "stopped"}]
        /\ feeds \in SUBSET (Bindings \X Kinds) /\ data \in Maps /\ todo \in SUBSET Bindings
        /\ Begun(b)
    BY DEF SetupInv, SetupTypeOK
  <1>3. at = "bindings" /\ b \notin todo /\ b \notin data.providers /\ b \notin broken
        /\ b \in facts.bound /\ Fits(b)
    BY <1>1, <1>2 DEF Begun
  <1>4. Of(b, "reads") \in SUBSET Bindings /\ Of(b, "energy") \in SUBSET Bindings
    BY DEF Of
  <1>5. /\ d2 \in Maps /\ d2.eligible = data.eligible
        /\ d2.providers = data.providers \cup {b} /\ d2.subscribers = data.subscribers \cup {b}
        /\ d2.reads = data.reads \cup Of(b, "reads") /\ d2.energy = data.energy \cup Of(b, "energy")
    BY <1>2, <1>4 DEF Maps
  <1> HIDE DEF d2
  <1>6. line' \in [Bindings -> {"none", "starting", "running", "stopping", "stopped"}]
    BY <1>1, <1>2
  <1>7. SetupTypeOK' /\ StopsComeLate' /\ LoadedOrBroken' /\ ScopeIsKept' /\ RouterIsKept' /\ Untouched /\ Reached
    BY <1>1, <1>2, <1>3, <1>5, <1>6, WhileStarting
  <1>8. \A c \in Bindings, k \in Kinds : c \in d2[k] <=> c \in data[k] \/ (c = b /\ <<b, k>> \in feeds)
    BY <1>5 DEF Kinds, Of
  <1>9. \A c \in Bindings : line'[c] = IF c = b THEN "running" ELSE line[c]
    BY <1>1, <1>2
  <1>10. EverythingIsOwned'
    <2>1. ASSUME NEW f \in feeds
          PROVE  \/ line'[f[1]] = "starting" \/ f[1] \in d2[f[2]]
                 \/ \E s \in Stoppers : InHand(s) /\ f \in stops[s].feeds
      <3>1. f[1] \in Bindings /\ f[2] \in Kinds /\ f = <<f[1], f[2]>>
        BY <1>2
      <3>2. \/ line[f[1]] = "starting" \/ f[1] \in data[f[2]]
            \/ \E s \in Stoppers : InHand(s) /\ f \in stops[s].feeds
        BY DEF SetupInv, EverythingIsOwned
      <3>3. f[1] = b => <<b, f[2]>> \in feeds
        BY <3>1
      <3> QED
        BY <1>8, <1>9, <3>1, <3>2, <3>3
    <2> QED
      BY <1>1, <1>3, <1>5, <1>9, <2>1 DEF SetupInv, EverythingIsOwned, InHand
  <1>11. ASSUME NEW c \in Bindings PROVE Begun(c)'
    <2>1. Begun(c) /\ Serves(c)' = Serves(c) /\ Fits(c)' = Fits(c)
      BY <1>1 DEF SetupInv, Serves, Fits
    <2>2. \A k \in Kinds : Fed(c, k)' = Fed(c, k)
      BY <1>1 DEF Fed
    <2>3. /\ c \in data'.providers <=> c \in data.providers \/ c = b
          /\ c \in data'.subscribers <=> c \in data.subscribers \/ c = b
      BY <1>1, <1>5
    <2>4. c = b => Serves(c)
      BY <1>3, <1>7 DEF Serves, Reached
    <2>5. \A k \in Kinds : c \in data'[k] <=> c \in data[k] \/ (c = b /\ Fed(b, k))
      BY <1>1, <1>2, <1>8 DEF Begun
    <2> QED
      BY <1>1, <1>3, <1>9, <2>1, <2>2, <2>3, <2>4, <2>5 DEF Begun, Early, Parted
  <1> QED
    BY <1>7, <1>10, <1>11 DEF SetupInv

LEMMA StartFailsHolds == ASSUME SetupInv, NEW b \in Bindings, StartFails(b) PROVE SetupInv'
  <1>1. /\ line[b] = "starting" /\ UNCHANGED <<facts, at, loaded, todo, data, router, stops>>
        /\ line' = [line EXCEPT ![b] = "stopped"] /\ feeds' = feeds \ ({b} \X Kinds)
        /\ broken' = broken \cup {b}
    BY DEF StartFails
  <1>2. /\ line \in [Bindings -> {"none", "starting", "running", "stopping", "stopped"}]
        /\ feeds \in SUBSET (Bindings \X Kinds) /\ data \in Maps /\ todo \in SUBSET Bindings
        /\ Begun(b)
    BY DEF SetupInv, SetupTypeOK
  <1>3. at = "bindings" /\ b \notin data.providers
    BY <1>1, <1>2 DEF Begun
  <1>4. line' \in [Bindings -> {"none", "starting", "running", "stopping", "stopped"}]
    BY <1>1, <1>2
  <1>5. feeds' \in SUBSET (Bindings \X Kinds)
    BY <1>1, <1>2
  <1>6. SetupTypeOK' /\ StopsComeLate' /\ LoadedOrBroken' /\ ScopeIsKept' /\ RouterIsKept' /\ Untouched /\ Reached
    BY <1>1, <1>2, <1>3, <1>4, <1>5, WhileStarting
  <1>7. \A c \in Bindings : line'[c] = IF c = b THEN "stopped" ELSE line[c]
    BY <1>1, <1>2
  <1>8. EverythingIsOwned'
    <2>1. ASSUME NEW f \in feeds'
          PROVE  \/ line'[f[1]] = "starting" \/ f[1] \in data[f[2]]
                 \/ \E s \in Stoppers : InHand(s) /\ f \in stops[s].feeds
      <3>1. f \in feeds /\ f[1] \in Bindings /\ f[1] # b
        BY <1>1, <1>2
      <3>2. \/ line[f[1]] = "starting" \/ f[1] \in data[f[2]]
            \/ \E s \in Stoppers : InHand(s) /\ f \in stops[s].feeds
        BY <3>1 DEF SetupInv, EverythingIsOwned
      <3> QED
        BY <1>7, <3>1, <3>2
    <2> QED
      BY <1>1, <1>3, <1>7, <2>1 DEF SetupInv, EverythingIsOwned, InHand
  <1>9. ASSUME NEW c \in Bindings PROVE Begun(c)'
    <2>1. Begun(c) /\ Fits(c)' = Fits(c)
      BY <1>1 DEF SetupInv, Fits
    <2>2. Serves(c)' <=> Serves(c) /\ c # b
      BY <1>1, BindingsAssumption DEF Serves, Fits
    <2>3. \A k \in Kinds : Fed(c, k)' = Fed(c, k)
      BY <1>1 DEF Fed
    <2>4. \A k \in Kinds : c # b => (<<c, k>> \in feeds' <=> <<c, k>> \in feeds)
      BY <1>1
    <2>5. c # b => (c \in broken' <=> c \in broken)
      BY <1>1
    <2> QED
      <3>1. CASE c = b
        BY <1>1, <1>3, <1>7, <2>1, <2>2, <2>3, <3>1 DEF Begun, Early, Parted
      <3>2. CASE c # b
        <4>1. /\ UNCHANGED <<facts, at, loaded, todo, data, stops>> /\ line'[c] = line[c]
              /\ at \notin Early /\ (Serves(c)' <=> Serves(c))
          BY <1>1, <1>3, <1>7, <2>2, <3>2 DEF Early, Parted
        <4> QED
          BY <1>3, <2>1, <2>3, <2>4, <2>5, <3>2, <4>1 DEF Begun
      <3> QED
        BY <3>1, <3>2
  <1> QED
    BY <1>6, <1>8, <1>9 DEF SetupInv

LEMMA StopLineHolds == ASSUME SetupInv, NEW b \in Bindings, StopLine(b) PROVE SetupInv'
  <1>1. /\ UNCHANGED <<facts, at, loaded, todo, feeds, data, router, stops, broken>>
        /\ line[b] = "stopping" /\ line' = [line EXCEPT ![b] = "stopped"]
    BY DEF StopLine
  <1>2. /\ line \in [Bindings -> {"none", "starting", "running", "stopping", "stopped"}]
        /\ feeds \in SUBSET (Bindings \X Kinds)
    BY DEF SetupInv, SetupTypeOK
  <1>3. \A c \in Bindings : line'[c] = IF c = b THEN "stopped" ELSE line[c]
    BY <1>1, <1>2
  <1>4. SetupTypeOK'
    <2>1. line' \in [Bindings -> {"none", "starting", "running", "stopping", "stopped"}]
      BY <1>1, <1>2
    <2> QED
      BY <1>1, <2>1 DEF SetupInv, SetupTypeOK
  <1>5. StopsComeLate' /\ LoadedOrBroken' /\ ScopeIsKept' /\ RouterIsKept'
    BY <1>1 DEF SetupInv, StopsComeLate, Untouched, LoadedOrBroken, Reached, ScopeIsKept, Eligible,
                UpTo, Weighty, RouterIsKept
  <1>6. EverythingIsOwned'
    <2>1. \A f \in feeds : f[1] \in Bindings
      BY <1>2
    <2> QED
      BY <1>1, <1>3, <2>1 DEF SetupInv, EverythingIsOwned, InHand
  <1>7. ASSUME NEW c \in Bindings PROVE Begun(c)'
    <2>1. Begun(c) /\ Serves(c)' = Serves(c) /\ Fits(c)' = Fits(c) /\ Untouched' = Untouched
      BY <1>1 DEF SetupInv, Serves, Fits, Untouched
    <2>2. \A k \in Kinds : Fed(c, k)' = Fed(c, k)
      BY <1>1 DEF Fed
    <2> QED
      BY <1>1, <1>3, <2>1, <2>2 DEF Begun
  <1> QED
    BY <1>4, <1>5, <1>6, <1>7 DEF SetupInv

LEMMA CloseFeedsHolds == ASSUME SetupInv, NEW s \in Stoppers, CloseFeeds(s) PROVE SetupInv'
  <1>1. /\ UNCHANGED <<facts, loaded, todo, line, data, router, broken>>
        /\ stops[s].doing = "now" /\ \A b \in stops[s].lines : line[b] = "stopped"
        /\ feeds' = feeds \ stops[s].feeds /\ stops' = [stops EXCEPT ![s] = Stop("done")]
        /\ at' = IF s = "unload" THEN "down" ELSE at
    BY DEF CloseFeeds
  <1>2. stops \in [Stoppers -> InHands] /\ feeds \in SUBSET (Bindings \X Kinds) /\ at \in Stages
    BY DEF SetupInv, SetupTypeOK
  <1>3. Stop("done") \in InHands /\ Stop("done").doing = "done"
    BY DEF Stop, InHands
  <1>4. \A t \in Stoppers : stops'[t] = IF t = s THEN Stop("done") ELSE stops[t]
    BY <1>1, <1>2
  <1>5. ~Untouched /\ ~Untouched' /\ at \in AfterSetup /\ at' \in AfterSetup /\ data = Empty
    <2>1. ~Untouched /\ ~Untouched'
      BY <1>1, <1>3, <1>4 DEF Untouched
    <2> QED
      BY <1>1, <2>1 DEF SetupInv, StopsComeLate, AfterSetup
  <1>6. SetupTypeOK'
    <2>1. stops' \in [Stoppers -> InHands] /\ feeds' \in SUBSET (Bindings \X Kinds)
      BY <1>1, <1>2, <1>3
    <2> QED
      BY <1>1, <1>5, <2>1 DEF SetupInv, SetupTypeOK, Stages
  <1>7. StopsComeLate' /\ RouterIsKept'
    BY <1>1, <1>5 DEF StopsComeLate, RouterIsKept
  <1>8. LoadedOrBroken' /\ ScopeIsKept'
    BY <1>1, <1>5 DEF SetupInv, LoadedOrBroken, Reached, ScopeIsKept, UpTo, Weighty, AfterSetup, Parted,
                      Eligible
  <1>9. EverythingIsOwned'
    <2>1. \A t \in Stoppers : t # s => InHand(t)' = InHand(t) /\ stops'[t] = stops[t]
      BY <1>4 DEF InHand
    <2> QED
      BY <1>1, <1>5, <2>1 DEF SetupInv, EverythingIsOwned
  <1>10. ASSUME NEW c \in Bindings PROVE Begun(c)'
    <2>1. Begun(c) /\ Serves(c)' = Serves(c) /\ Fits(c)' = Fits(c)
      BY <1>1 DEF SetupInv, Serves, Fits
    <2>2. \A k \in Kinds : Fed(c, k)' = Fed(c, k)
      BY <1>1 DEF Fed
    <2>3. at \notin Early \cup {"bindings"} /\ at' \notin Early \cup {"bindings"} /\ at # "bindings"
      BY <1>5 DEF AfterSetup, Early, Parted
    <2> QED
      BY <1>1, <1>5, <2>1, <2>2, <2>3 DEF Begun
  <1> QED
    BY <1>6, <1>7, <1>8, <1>9, <1>10 DEF SetupInv

(* A stop takes what is in the maps, whoever calls it.                     *)
LEMMA StoppingHolds ==
    ASSUME SetupInv, NEW s \in Stoppers, StopShadows(s),
           UNCHANGED <<facts, loaded, todo, feeds, router, broken>>,
           at \in {"platforms", "up", "unloading"}, at' \in {"platforms", "up", "unloading", "rollback"}
    PROVE  SetupInv'
  <1> DEFINE taken == [doing |-> "now", lines |-> data.subscribers,
                       feeds |-> data.reads \X {"reads"} \cup data.energy \X {"energy"}]
  <1>1. /\ stops[s].doing = "not yet" /\ stops' = [stops EXCEPT ![s] = taken]
        /\ line' = [b \in Bindings |-> IF b \in data.subscribers THEN "stopping" ELSE line[b]]
        /\ data' = Empty
    BY DEF StopShadows, Taken
  <1>2. stops \in [Stoppers -> InHands] /\ feeds \in SUBSET (Bindings \X Kinds) /\ data \in Maps
        /\ line \in [Bindings -> {"none", "starting", "running", "stopping", "stopped"}]
    BY DEF SetupInv, SetupTypeOK
  <1>3. /\ taken \in InHands /\ taken.doing = "now" /\ taken.lines = data.subscribers
        /\ \A c \in Bindings, k \in Kinds : c \in data[k] => <<c, k>> \in taken.feeds
    BY <1>2 DEF InHands, Maps, Kinds
  <1> HIDE DEF taken
  <1>4. /\ Empty \in Maps /\ \A k \in Kinds : Empty[k] = {}
        /\ Empty.providers = {} /\ Empty.subscribers = {} /\ Empty.eligible = {}
    BY DEF Empty, Maps, Kinds
  <1>5. \A t \in Stoppers : stops'[t] = IF t = s THEN taken ELSE stops[t]
    BY <1>1, <1>2
  <1>6. ~Untouched' /\ at \in AfterSetup /\ at' \in AfterSetup /\ at' # "down"
    BY <1>3, <1>5 DEF Untouched, AfterSetup
  <1>7. SetupTypeOK'
    <2>1. stops' \in [Stoppers -> InHands]
      BY <1>1, <1>2, <1>3
    <2>2. line' \in [Bindings -> {"none", "starting", "running", "stopping", "stopped"}]
      BY <1>1, <1>2
    <2> QED
      BY <1>1, <1>4, <1>6, <2>1, <2>2 DEF SetupInv, SetupTypeOK, Stages
  <1>8. StopsComeLate' /\ RouterIsKept'
    BY <1>1, <1>6 DEF StopsComeLate, RouterIsKept
  <1>9. LoadedOrBroken'
    BY <1>6 DEF SetupInv, LoadedOrBroken, Reached, UpTo, Weighty, AfterSetup, Parted
  <1>10. ScopeIsKept'
    BY <1>1, <1>4, <1>6 DEF SetupInv, ScopeIsKept, Reached, UpTo, AfterSetup, Parted
  <1>11. EverythingIsOwned'
    <2>1. /\ InHand(s)' /\ ~InHand(s) /\ stops'[s] = taken
          /\ \A t \in Stoppers : InHand(t) => InHand(t)' /\ stops'[t] = stops[t]
      BY <1>1, <1>3, <1>5 DEF InHand
    <2>2. ASSUME NEW b \in Bindings
          PROVE  /\ line'[b] # "running"
                 /\ line'[b] = "stopping" =>
                       \E t \in Stoppers : InHand(t)' /\ b \in stops'[t].lines
      BY <1>1, <1>3, <2>1 DEF SetupInv, EverythingIsOwned
    <2>3. ASSUME NEW f \in feeds
          PROVE  \E t \in Stoppers : InHand(t)' /\ f \in stops'[t].feeds
      <3>1. f[1] \in Bindings /\ f[2] \in Kinds /\ f = <<f[1], f[2]>>
        BY <1>2
      <3>2. line[f[1]] # "starting"
        BY <3>1 DEF SetupInv, Begun
      <3>3. f[1] \in data[f[2]] \/ \E t \in Stoppers : InHand(t) /\ f \in stops[t].feeds
        BY <3>2 DEF SetupInv, EverythingIsOwned
      <3> QED
        BY <1>3, <2>1, <3>1, <3>3
    <2> QED
      BY <1>6, <2>2, <2>3 DEF EverythingIsOwned
  <1>12. ASSUME NEW c \in Bindings PROVE Begun(c)'
    <2>1. Begun(c) /\ Fits(c)' = Fits(c) /\ (Untouched => c \notin todo)
      BY DEF SetupInv, Fits, Begun
    <2>2. \A k \in Kinds : c \notin data'[k]
      BY <1>1, <1>4
    <2>3. at # "bindings" /\ at' \notin Early /\ at' # "bindings"
      BY <1>6 DEF AfterSetup, Early, Parted
    <2>4. /\ line'[c] \in {"none", "starting"} => line'[c] = line[c]
          /\ c \notin data'.providers /\ c \notin data'.subscribers
      BY <1>1, <1>4
    <2> QED
      BY <1>6, <2>1, <2>2, <2>3, <2>4 DEF Begun
  <1> QED
    BY <1>7, <1>8, <1>9, <1>10, <1>11, <1>12 DEF SetupInv

LEMMA SetupInvIsKept == SetupInv /\ [SetupNext]_setupVars /\ at' # "failed" => SetupInv'
  <1> SUFFICES ASSUME SetupInv, [SetupNext]_setupVars, at' # "failed"
               PROVE  SetupInv'
    OBVIOUS
  <1>1. CASE ReadOptions
    BY <1>1, GoesOn DEF ReadOptions, running
  <1>2. CASE LoadDatabase
    BY <1>2, GoesOn DEF LoadDatabase, running
  <1>3. CASE LoadPart
    BY <1>3, LoadPartHolds
  <1>4. ASSUME NEW b \in Bindings, Skip(b) PROVE SetupInv'
    BY <1>4, SkipHolds
  <1>5. ASSUME NEW b \in Bindings, Start(b) PROVE SetupInv'
    BY <1>5, StartHolds
  <1>6. ASSUME NEW b \in Bindings, Started(b) PROVE SetupInv'
    BY <1>6, StartedHolds
  <1>7. ASSUME NEW b \in Bindings, StartFails(b) PROVE SetupInv'
    BY <1>7, StartFailsHolds
  <1>8. ASSUME NEW b \in Bindings, StopLine(b) PROVE SetupInv'
    BY <1>8, StopLineHolds
  <1>9. CASE AllStarted
    BY <1>9, GoesOn DEF AllStarted, running
  <1>10. CASE StartControl
    BY <1>10, GoesOn DEF StartControl
  <1>11. CASE LoadSettings
    BY <1>11, GoesOn DEF LoadSettings
  <1>12. CASE Forward
    BY <1>12, GoesOn DEF Forward, running
  <1>13. CASE RollBack
    BY <1>13, StoppingHolds DEF RollBack, Stoppers
  <1>14. CASE TearDown
    BY <1>14, StoppingHolds DEF TearDown, Stoppers
  <1>15. CASE CoreStops
    BY <1>15, StoppingHolds DEF CoreStops, Stoppers
  <1>16. ASSUME NEW s \in Stoppers, CloseFeeds(s) PROVE SetupInv'
    BY <1>16, CloseFeedsHolds
  <1>17. CASE UNCHANGED setupVars
    <2>1. \A b \in Bindings, k \in Kinds : Fed(b, k)' = Fed(b, k)
      BY <1>17 DEF Fed, setupVars
    <2>2. ASSUME NEW b \in Bindings PROVE Begun(b)'
      <3>1. Begun(b) /\ Serves(b)' = Serves(b) /\ Fits(b)' = Fits(b) /\ Untouched' = Untouched
        BY <1>17 DEF setupVars, SetupInv, Serves, Fits, Untouched
      <3> QED
        BY <1>17, <2>1, <3>1 DEF setupVars, Begun
    <2>3. SetupTypeOK' /\ StopsComeLate' /\ RouterIsKept' /\ EverythingIsOwned'
      BY <1>17 DEF setupVars, SetupInv, SetupTypeOK, StopsComeLate, RouterIsKept, Untouched,
                   EverythingIsOwned, InHand
    <2>4. LoadedOrBroken'
      BY <1>17 DEF setupVars, SetupInv, LoadedOrBroken, Reached, UpTo, Weighty
    <2>5. ScopeIsKept'
      BY <1>17 DEF setupVars, SetupInv, ScopeIsKept, Reached, Untouched, Eligible, UpTo
    <2> QED
      BY <2>2, <2>3, <2>4, <2>5 DEF SetupInv
  <1> QED
    BY <1>1, <1>2, <1>3, <1>4, <1>5, <1>6, <1>7, <1>8, <1>9, <1>10, <1>11, <1>12, <1>13, <1>14, <1>15,
       <1>16, <1>17 DEF SetupNext

(* An entry whose settings could not be loaded: nobody stops what it had.  *)
Abandoned ==
    /\ at = "failed" /\ router = FALSE /\ Untouched
    /\ \A b \in Bindings : line[b] \notin {"starting", "stopping"}

LEMMA EntryIsAbandoned == SetupInv /\ [SetupNext]_setupVars /\ at' = "failed" => Abandoned'
  <1> SUFFICES ASSUME SetupInv, [SetupNext]_setupVars, at' = "failed"
               PROVE  Abandoned'
    OBVIOUS
  <1>1. at # "failed"
    BY DEF SetupInv, SetupTypeOK, Stages, Parted, AfterSetup
  <1>2. LoadSettings
    <2>1. CASE LoadPart
      <3>1. \A part \in Parted, works \in BOOLEAN : Follows(part, works) # "failed"
        BY DEF Parted, Follows, AfterCatalogue
      <3> QED
        BY <2>1, <3>1 DEF LoadPart
    <2> QED
      BY <1>1, <2>1 DEF SetupNext, setupVars, ReadOptions, LoadDatabase, Skip, Start, Started,
           StartFails, StopLine, AllStarted, StartControl, Forward, RollBack, TearDown, CoreStops,
           CloseFeeds
  <1>3. at = "settings" /\ router' = FALSE /\ UNCHANGED <<line, stops>>
    BY <1>2 DEF LoadSettings
  <1>4. Untouched
    BY <1>3 DEF SetupInv, StopsComeLate, AfterSetup
  <1>5. \A b \in Bindings : line[b] \notin {"starting", "stopping"}
    BY <1>3, <1>4 DEF SetupInv, EverythingIsOwned, InHand, Untouched, Begun
  <1> QED
    BY <1>3, <1>4, <1>5 DEF Abandoned, Untouched

LEMMA AbandonedStays == Abandoned /\ [SetupNext]_setupVars => Abandoned'
  <1> SUFFICES ASSUME Abandoned, [SetupNext]_setupVars
               PROVE  Abandoned'
    OBVIOUS
  <1>1. ~SetupNext
    BY DEF Abandoned, Untouched, SetupNext, ReadOptions, LoadDatabase, LoadPart, Parted, Skip, Start,
           Started, StartFails, StopLine, AllStarted, StartControl, LoadSettings, Forward, RollBack,
           TearDown, CoreStops, CloseFeeds
  <1> QED
    BY <1>1 DEF setupVars, Abandoned, Untouched

LEMMA AbandonedIsEnough == Abandoned => SetupIsSound
BY DEF Abandoned, SetupIsSound, NothingIsLeft, FailureIsIsolated, Ready, AuthorityIsBacked, Authorized

(* What the invariant says of the state a request meets.                   *)
LEMMA SetupInvIsEnough == SetupInv => SetupIsSound
  <1> SUFFICES ASSUME SetupInv
               PROVE  SetupIsSound
    OBVIOUS
  <1>1. /\ facts.scope \in {"none", "listed", "stale", "invalid"}
        /\ facts.bound \in SUBSET Bindings
    BY EntriesAssumption DEF SetupInv, SetupTypeOK
  <1>2. ASSUME NEW b \in Bindings PROVE Begun(b)
    BY DEF SetupInv
  <1>3. AuthorityIsBacked
    <2> SUFFICES ASSUME NEW b \in Bindings, Authorized(b)
                 PROVE  /\ line[b] = "running" /\ b \in facts.controls
                        /\ facts.scope \in {"none", "listed"}
                        /\ facts.scope = "listed" => b \in facts.scoped
      BY DEF AuthorityIsBacked
    <2>1. line[b] = "running" /\ b \in data.eligible
      BY <1>2 DEF Authorized, Begun
    <2>2. Untouched
      BY <2>1 DEF SetupInv, StopsComeLate, Empty
    <2>3. b \in Eligible /\ facts.scope # "invalid"
      BY <2>1, <2>2 DEF SetupInv, ScopeIsKept
    <2> QED
      BY <1>1, <2>1, <2>3 DEF Eligible
  <1>4. FailureIsIsolated
    <2> SUFFICES ASSUME Ready, NEW b \in Bindings
                 PROVE  /\ b \in data.providers <=> Serves(b)
                        /\ b \in data.reads <=>
                              /\ Serves(b) /\ "catalogue" \notin broken
                              /\ b \in facts.identified \cap facts.readable \cap facts.presence
                        /\ b \in data.energy <=> Serves(b) /\ b \in facts.identified \cap facts.metered
                        /\ Authorized(b) <=>
                              /\ Serves(b) /\ facts.wideq /\ b \in facts.controls
                              /\ broken \cap {"contract", "scope"} = {}
                              /\ \/ facts.scope = "none"
                                 \/ facts.scope = "listed" /\ b \in facts.scoped
                        /\ Composable(b) <=> Authorized(b) /\ "domain" \notin broken
      BY DEF FailureIsIsolated
    <2>1. at \in {"platforms", "up"} /\ Untouched
      BY DEF Ready, Untouched
    <2>2. at \notin Early \cup {"bindings"} /\ at \notin UpTo("scope") /\ \A p \in Weighty : at \notin UpTo(p)
      BY <2>1 DEF Early, Parted, UpTo, Weighty
    <2>3. /\ b \in data.providers <=> Serves(b)
          /\ \A k \in Kinds : b \in data[k] <=> b \in data.providers /\ Fed(b, k)
      BY <1>2, <2>1, <2>2 DEF Begun
    <2>4. Serves(b) => Reached
      BY DEF Serves, Reached
    <2>5. Reached => \A p \in Weighty : p \in loaded <=> p \notin broken
      BY <2>2 DEF SetupInv, LoadedOrBroken
    <2>6. /\ b \in data.reads <=> Serves(b) /\ Fed(b, "reads")
          /\ b \in data.energy <=> Serves(b) /\ Fed(b, "energy")
      BY <2>3 DEF Kinds
    <2>7. Authorized(b) <=>
             /\ Serves(b) /\ facts.wideq /\ b \in facts.controls
             /\ broken \cap {"contract", "scope"} = {}
             /\ \/ facts.scope = "none"
                \/ facts.scope = "listed" /\ b \in facts.scoped
      <3>1. router <=> data.providers # {} /\ facts.wideq
        BY <2>1 DEF SetupInv, RouterIsKept
      <3>2. Reached => /\ data.eligible = IF broken \cap {"contract", "scope"} = {} THEN Eligible ELSE {}
                       /\ broken \cap {"contract", "scope"} = {} => facts.scope # "invalid"
        BY <2>1, <2>2 DEF SetupInv, ScopeIsKept
      <3>3. Reached => ("contract" \in loaded <=> "contract" \notin broken)
        BY <2>5 DEF Weighty
      <3>4. Serves(b) => b \in facts.bound
        BY DEF Serves
      <3> QED
        BY <1>1, <2>3, <2>4, <3>1, <3>2, <3>3, <3>4 DEF Authorized, Eligible
    <2>8. Composable(b) <=> Authorized(b) /\ "domain" \notin broken
      BY <2>4, <2>5, <2>7 DEF Composable, Weighty
    <2> QED
      BY <2>3, <2>4, <2>5, <2>6, <2>7, <2>8 DEF Fed, Weighty
  <1> QED
    BY <1>3, <1>4 DEF SetupIsSound, SetupInv, NothingIsLeft

(***************************************************************************)
(* Whatever of an entry cannot be loaded or started and whoever stops it,  *)
(* nothing of its local side is left without an owner, unless the settings *)
(* at LG cannot be loaded; a failure takes away only what needs the failed *)
(* thing, and no request is authorized that nothing stands behind          *)
(* (_setup_local_shadows, _stop_local_shadows, async_setup_entry).         *)
(***************************************************************************)
THEOREM SetupIsAlwaysSound == SetupSpec => []SetupIsSound
  <1>1. (SetupInv \/ Abandoned) /\ [SetupNext]_setupVars => (SetupInv \/ Abandoned)'
    BY SetupInvIsKept, EntryIsAbandoned, AbandonedStays
  <1>2. SetupSpec => [](SetupInv \/ Abandoned)
    BY <1>1, SetupInitHolds, PTL DEF SetupSpec
  <1> QED
    BY <1>2, SetupInvIsEnough, AbandonedIsEnough, PTL

----------------------------------------------------------------------------
(* The feature database and its token.                                     *)
(* The token cache.                                                        *)
Asking == {"version", "read", "after", "answer"}
Applying == {"platforms", "inside", "done"}
Inodes == 0..(MaxEdits + 1)
Tokens == Contents \cup {NoToken}
Readings == [step : {"idle", "refresh", "apply"} \cup Asking \cup Applying,
             inode : Inodes, version : Nat, token : Tokens]
Caches == [conn : Inodes, identity : Inodes, stamp : [inode : Inodes, version : Nat],
           token : Tokens]

DatabaseTypeOK ==
    /\ db \in [inode : Inodes \ {0}, content : Contents, edits : 0..MaxEdits]
    /\ db.inode <= db.edits + 1
    /\ versions \in [1..(MaxEdits + 1) -> Nat]
    /\ cache \in Caches /\ reading \in Readings
    /\ during \in SUBSET Contents

(* What the path has had since a question began includes what it has now.  *)
QuestionIsKept ==
    IF reading.step \in Asking THEN db.content \in during ELSE during = {}

(* A connection is on the file it was opened for, or on a later one.       *)
ConnectionIsKept ==
    /\ cache.identity <= cache.conn /\ cache.conn <= db.inode
    /\ cache.conn = 0 => cache.stamp = NoStamp
    /\ reading.step \in Asking \ {"answer"} => reading.inode > 0 /\ reading.inode <= db.inode
    /\ reading.step \in {"read", "after"} =>
          cache.conn > 0 /\ cache.identity = reading.inode /\ reading.version <= versions[cache.conn]

(* The stamp that was kept still says what it was taken of.                *)
Stamped == cache.stamp # NoStamp /\ versions[cache.conn] = cache.stamp.version
StampIsKept ==
    /\ cache.stamp # NoStamp =>
          /\ cache.conn = cache.stamp.inode /\ cache.identity = cache.stamp.inode
          /\ cache.stamp.version <= versions[cache.conn] /\ cache.token # NoToken
    /\ Stamped /\ db.inode = cache.conn => cache.token = db.content
    /\ Stamped /\ reading.step = "version" /\ reading.inode = cache.conn => cache.token \in during

(* What is being read.                                                     *)
ReadingIsKept ==
    /\ reading.step \in {"after", "answer"} => reading.token \in during
    /\ reading.step = "after" /\ db.inode = cache.conn /\ versions[cache.conn] = reading.version =>
          reading.token = db.content

DatabaseInv == DatabaseTypeOK /\ QuestionIsKept /\ ConnectionIsKept /\ StampIsKept /\ ReadingIsKept

(* Inodes are counted up to the last edit.                                 *)
LEMMA InodeFacts ==
    /\ \A i : i \in Inodes <=> i \in Nat /\ i <= MaxEdits + 1
    /\ 0 \in Inodes /\ NoToken \in Tokens /\ Contents \subseteq Tokens
    /\ MaxEdits \in Nat
    /\ \A i : i \in 1..(MaxEdits + 1) <=> i \in Inodes \ {0}
  BY BoundAssumption DEF Inodes, Tokens

LEMMA DatabaseInitHolds == InitDatabase => DatabaseInv
  <1> SUFFICES ASSUME InitDatabase
               PROVE  DatabaseInv
    OBVIOUS
  <1>1. DatabaseTypeOK
    BY ContentAssumption, InodeFacts
       DEF InitDatabase, DatabaseTypeOK, Idle, NoStamp, Caches, Readings
  <1>2. QuestionIsKept /\ ConnectionIsKept /\ StampIsKept /\ ReadingIsKept
    BY DEF InitDatabase, QuestionIsKept, ConnectionIsKept, StampIsKept, Stamped, ReadingIsKept,
           Asking, Idle
  <1> QED
    BY <1>1, <1>2 DEF DatabaseInv

(* A step that only ends a question, or leaves it and goes on.             *)
LEMMA DatabaseIsLeft ==
    ASSUME DatabaseInv, UNCHANGED <<db, versions, cache>>, during' = {},
           reading' \in Readings, reading'.step \notin Asking
    PROVE  DatabaseInv'
  <1>1. DatabaseTypeOK'
    BY DEF DatabaseInv, DatabaseTypeOK
  <1>2. QuestionIsKept' /\ ConnectionIsKept' /\ ReadingIsKept'
    BY DEF DatabaseInv, QuestionIsKept, ConnectionIsKept, ReadingIsKept, Asking
  <1>3. StampIsKept'
    BY DEF DatabaseInv, StampIsKept, Stamped, Asking
  <1> QED
    BY <1>1, <1>2, <1>3 DEF DatabaseInv

LEMMA CommitHolds == ASSUME DatabaseInv, NEW c \in Contents, Commit(c) PROVE DatabaseInv'
  <1> DEFINE file == [db EXCEPT !.content = c, !.edits = @ + 1]
  <1>1. /\ db.edits < MaxEdits /\ UNCHANGED <<cache, reading, faults>> /\ db' = file
        /\ during' = IF during = {} THEN {} ELSE during \cup {file.content}
        /\ versions' = [versions EXCEPT ![db.inode] = @ + 1]
    BY DEF Commit, Becomes
  <1>2. DatabaseTypeOK
    BY DEF DatabaseInv
  <1>3. /\ file \in [inode : Inodes \ {0}, content : Contents, edits : 0..MaxEdits]
        /\ file.content = c /\ file.inode = db.inode /\ file.edits = db.edits + 1
        /\ db.inode \in 1..(MaxEdits + 1)
    <2>1. /\ db \in [inode : Inodes \ {0}, content : Contents, edits : 0..MaxEdits]
          /\ db.edits + 1 \in 0..MaxEdits
      BY <1>1, <1>2, InodeFacts DEF DatabaseTypeOK
    <2> QED
      BY <2>1, InodeFacts
  <1> HIDE DEF file
  <1>4. /\ versions' \in [1..(MaxEdits + 1) -> Nat]
        /\ \A i \in 1..(MaxEdits + 1) :
              versions'[i] = IF i = db.inode THEN versions[i] + 1 ELSE versions[i]
    BY <1>1, <1>2, <1>3 DEF DatabaseTypeOK
  <1>5. DatabaseTypeOK'
    BY <1>1, <1>2, <1>3, <1>4, InodeFacts, SMTT(20) DEF DatabaseTypeOK, Caches, Readings
  <1>6. /\ cache.conn > 0 => cache.conn \in 1..(MaxEdits + 1)
        /\ cache.conn \in Nat /\ cache.stamp.version \in Nat /\ reading.version \in Nat
    BY <1>2, InodeFacts DEF DatabaseTypeOK, Caches, Readings
  <1>7. QuestionIsKept'
    BY <1>1, <1>3 DEF DatabaseInv, QuestionIsKept
  <1>8. ConnectionIsKept'
    BY <1>1, <1>2, <1>3, <1>4, <1>6 DEF DatabaseInv, ConnectionIsKept, DatabaseTypeOK
  <1>9. StampIsKept'
    <2>1. cache.stamp # NoStamp =>
             /\ cache.conn \in 1..(MaxEdits + 1) /\ versions[cache.conn] \in Nat
             /\ cache.stamp.version <= versions[cache.conn]
      BY <1>2, <1>6 DEF DatabaseInv, ConnectionIsKept, StampIsKept, DatabaseTypeOK
    <2>2. Stamped' => Stamped /\ cache.conn # db.inode
      BY <1>1, <1>4, <1>6, <2>1 DEF Stamped
    <2>3. during \subseteq during'
      BY <1>1
    <2> QED
      BY <1>1, <1>3, <1>4, <1>6, <2>1, <2>2, <2>3 DEF DatabaseInv, StampIsKept
  <1>10. ReadingIsKept'
    <2>1. reading.step = "after" =>
             cache.conn \in 1..(MaxEdits + 1) /\ versions[cache.conn] \in Nat
             /\ reading.version <= versions[cache.conn]
      BY <1>2, <1>6 DEF DatabaseInv, ConnectionIsKept, DatabaseTypeOK
    <2> QED
      BY <1>1, <1>3, <1>4, <1>6, <2>1 DEF DatabaseInv, ReadingIsKept
  <1> QED
    BY <1>5, <1>7, <1>8, <1>9, <1>10 DEF DatabaseInv

LEMMA ReplaceHolds == ASSUME DatabaseInv, NEW c \in Contents, ReplaceFile(c) PROVE DatabaseInv'
  <1> DEFINE file == [inode |-> db.inode + 1, content |-> c, edits |-> db.edits + 1]
  <1>1. /\ db.edits < MaxEdits /\ UNCHANGED <<versions, cache, reading, faults>> /\ db' = file
        /\ during' = IF during = {} THEN {} ELSE during \cup {file.content}
    BY DEF ReplaceFile, Becomes
  <1>2. DatabaseTypeOK
    BY DEF DatabaseInv
  <1>3. /\ file \in [inode : Inodes \ {0}, content : Contents, edits : 0..MaxEdits]
        /\ file.content = c /\ file.inode = db.inode + 1 /\ file.edits = db.edits + 1
        /\ db.inode \in Nat /\ file.inode <= file.edits + 1
    <2>1. db.edits \in 0..MaxEdits /\ db.inode \in Inodes /\ db.inode <= db.edits + 1
      BY <1>2 DEF DatabaseTypeOK
    <2>2. db.inode \in Nat /\ db.inode + 1 <= db.edits + 1 + 1 /\ db.edits + 1 \in 0..MaxEdits
      BY <1>1, <2>1, InodeFacts
    <2>3. db.inode + 1 \in Inodes \ {0}
      BY <2>2, BoundAssumption DEF Inodes
    <2> QED
      BY <2>2, <2>3
  <1> HIDE DEF file
  <1>4. DatabaseTypeOK'
    BY <1>1, <1>2, <1>3 DEF DatabaseTypeOK
  <1>5. cache.conn \in Nat /\ reading.inode \in Nat
    BY <1>2, InodeFacts DEF DatabaseTypeOK, Caches, Readings
  <1>6. QuestionIsKept'
    BY <1>1, <1>3 DEF DatabaseInv, QuestionIsKept
  <1>7. ConnectionIsKept'
    BY <1>1, <1>3, <1>5 DEF DatabaseInv, ConnectionIsKept
  <1>8. db'.inode # cache.conn /\ during \subseteq during'
    BY <1>1, <1>3, <1>5 DEF DatabaseInv, ConnectionIsKept
  <1>9. StampIsKept' /\ ReadingIsKept'
    BY <1>1, <1>8 DEF DatabaseInv, StampIsKept, Stamped, ReadingIsKept
  <1> QED
    BY <1>4, <1>6, <1>7, <1>9 DEF DatabaseInv

LEMMA FilesHolds == ASSUME DatabaseInv, reading.step = "idle", Files PROVE DatabaseInv'
  <1> DEFINE asked == [reading EXCEPT !.step = "version", !.inode = db.inode]
  <1>1. UNCHANGED <<db, versions, cache, faults>> /\ reading' = asked /\ during' = {db.content}
    BY DEF Files
  <1>2. DatabaseTypeOK
    BY DEF DatabaseInv
  <1>3. /\ asked \in Readings
        /\ asked.step = "version" /\ asked.inode = db.inode /\ db.inode > 0
        /\ db.content \in Contents /\ db.inode \in Nat
    <2>1. reading \in Readings /\ db.inode \in Inodes \ {0} /\ db.content \in Contents
      BY <1>2 DEF DatabaseTypeOK
    <2>2. db.inode \in Nat /\ db.inode > 0
      BY <2>1, InodeFacts
    <2> QED
      BY <2>1, <2>2 DEF Readings, Asking
  <1> HIDE DEF asked
  <1>4. DatabaseTypeOK'
    BY <1>1, <1>2, <1>3 DEF DatabaseTypeOK
  <1>5. QuestionIsKept' /\ ConnectionIsKept' /\ ReadingIsKept'
    BY <1>1, <1>3 DEF DatabaseInv, QuestionIsKept, ConnectionIsKept, ReadingIsKept, Asking
  <1>6. StampIsKept'
    BY <1>1, <1>3 DEF DatabaseInv, StampIsKept, Stamped
  <1> QED
    BY <1>4, <1>5, <1>6 DEF DatabaseInv

LEMMA VersionHolds == ASSUME DatabaseInv, Version PROVE DatabaseInv'
  <1>1. /\ reading.step = "version" /\ cache' = Connected /\ UNCHANGED <<db, versions, during, faults>>
        /\ \/ /\ cache.token # NoToken
              /\ cache'.stamp = Stamp(reading.inode, versions[cache'.conn])
              /\ reading' = [reading EXCEPT !.step = "answer", !.token = cache.token]
           \/ reading' = [reading EXCEPT !.step = "read", !.version = versions[cache'.conn]]
    BY DEF Version
  <1>2. DatabaseTypeOK
    BY DEF DatabaseInv
  <1>3. /\ db.inode \in 1..(MaxEdits + 1) /\ reading.inode \in 1..(MaxEdits + 1)
        /\ reading.inode <= db.inode /\ cache.conn \in Nat /\ cache.conn <= db.inode
        /\ cache.conn > 0 => cache.conn \in 1..(MaxEdits + 1)
    BY <1>1, <1>2, InodeFacts DEF DatabaseInv, ConnectionIsKept, DatabaseTypeOK, Asking, Caches, Readings
  <1> DEFINE opened == [cache EXCEPT !.conn = db.inode, !.identity = reading.inode, !.stamp = NoStamp]
  <1>4. /\ opened \in Caches
        /\ opened.conn = db.inode /\ opened.identity = reading.inode /\ opened.stamp = NoStamp
        /\ opened.token = cache.token
    BY <1>2, <1>3, InodeFacts DEF DatabaseTypeOK, NoStamp, Caches, Readings
  <1>5. \/ cache' = cache /\ cache.conn # 0 /\ cache.identity = reading.inode
        \/ cache' = opened
    BY <1>1 DEF Connected
  <1> HIDE DEF opened
  <1>6. /\ cache' \in Caches
        /\ cache'.conn \in 1..(MaxEdits + 1) /\ cache'.identity = reading.inode
        /\ cache'.identity <= cache'.conn /\ cache'.conn <= db.inode /\ cache'.token = cache.token
        /\ cache'.stamp # NoStamp => cache' = cache
    BY <1>2, <1>3, <1>4, <1>5 DEF DatabaseInv, ConnectionIsKept, DatabaseTypeOK
  <1>7. /\ reading' \in Readings
        /\ reading'.inode = reading.inode
        /\ \/ /\ reading'.step = "answer" /\ reading'.token = cache.token
              /\ cache'.stamp = Stamp(reading.inode, versions[cache'.conn])
           \/ reading'.step = "read" /\ reading'.version = versions[cache'.conn]
    <2>1. reading \in Readings /\ cache.token \in Tokens /\ versions[cache'.conn] \in Nat
      BY <1>2, <1>6 DEF DatabaseTypeOK, Caches
    <2> QED
      BY <1>1, <2>1 DEF Readings, Asking
  <1>8. DatabaseTypeOK'
    BY <1>1, <1>2, <1>6, <1>7 DEF DatabaseTypeOK
  <1>9. QuestionIsKept'
    BY <1>1, <1>7 DEF DatabaseInv, QuestionIsKept, Asking
  <1>10. versions[cache'.conn] \in Nat
    BY <1>2, <1>6 DEF DatabaseTypeOK
  <1>11. ConnectionIsKept'
    BY <1>1, <1>3, <1>6, <1>7, <1>10 DEF ConnectionIsKept, Asking
  <1>12. StampIsKept'
    BY <1>1, <1>6, <1>7 DEF DatabaseInv, StampIsKept, Stamped
  <1>13. ReadingIsKept'
    <2>1. CASE reading'.step = "answer"
      <3>1. cache'.stamp.inode = reading.inode /\ cache'.stamp.version = versions[cache'.conn]
        BY <1>7, <2>1 DEF Stamp
      <3>2. Stamped /\ reading.inode = cache.conn
        BY <1>3, <1>6, <3>1 DEF Stamped, NoStamp, DatabaseInv, StampIsKept
      <3> QED
        BY <1>1, <1>7, <2>1, <3>2 DEF DatabaseInv, StampIsKept, ReadingIsKept
    <2>2. CASE reading'.step = "read"
      BY <2>2 DEF ReadingIsKept
    <2> QED
      BY <1>7, <2>1, <2>2
  <1> QED
    BY <1>8, <1>9, <1>11, <1>12, <1>13 DEF DatabaseInv

LEMMA ReadHolds == ASSUME DatabaseInv, Read PROVE DatabaseInv'
  <1> DEFINE got == [reading EXCEPT !.step = "after", !.token = db.content]
  <1>1. reading.step = "read" /\ reading' = got /\ UNCHANGED <<db, versions, cache, during, faults>>
    BY DEF Read
  <1>2. DatabaseTypeOK
    BY DEF DatabaseInv
  <1>3. /\ got \in Readings
        /\ got.step = "after" /\ got.token = db.content
        /\ got.inode = reading.inode /\ got.version = reading.version
    BY <1>2 DEF DatabaseTypeOK, Asking, Tokens, Readings
  <1> HIDE DEF got
  <1>4. DatabaseTypeOK'
    BY <1>1, <1>2, <1>3 DEF DatabaseTypeOK
  <1>5. QuestionIsKept' /\ ConnectionIsKept' /\ ReadingIsKept'
    BY <1>1, <1>3 DEF DatabaseInv, QuestionIsKept, ConnectionIsKept, ReadingIsKept, Asking
  <1>6. StampIsKept'
    BY <1>1, <1>3 DEF DatabaseInv, StampIsKept, Stamped
  <1> QED
    BY <1>4, <1>5, <1>6 DEF DatabaseInv

LEMMA AfterHolds == ASSUME DatabaseInv, After PROVE DatabaseInv'
  <1> DEFINE now == Stamp(db.inode, versions[cache.conn])
             kept == [cache EXCEPT !.token = reading.token, !.stamp = Settled(Before, now)]
  <1>1. /\ reading.step = "after" /\ reading' = Answer(reading.token) /\ cache' = kept
        /\ UNCHANGED <<db, versions, during, faults>>
    BY DEF After
  <1>2. DatabaseTypeOK
    BY DEF DatabaseInv
  <1>3. /\ db.inode \in 1..(MaxEdits + 1) /\ cache.conn \in 1..(MaxEdits + 1)
        /\ cache.identity = reading.inode /\ cache.identity <= cache.conn /\ cache.conn <= db.inode
        /\ cache.identity \in Nat /\ reading.inode > 0 /\ versions[cache.conn] \in Nat
        /\ reading.token \in during /\ reading.token \in Contents /\ db.content \in during
    BY <1>1, <1>2, InodeFacts
       DEF DatabaseInv, QuestionIsKept, ConnectionIsKept, ReadingIsKept, DatabaseTypeOK, Asking, Caches, Readings
  <1>4. /\ now \in [inode : Inodes, version : Nat] /\ NoStamp \in [inode : Inodes, version : Nat]
        /\ now.inode = db.inode /\ now.version = versions[cache.conn]
        /\ Before.inode = reading.inode /\ Before.version = reading.version
    BY <1>3, InodeFacts DEF Stamp, Before, NoStamp, Caches, Readings
  <1>5. \/ Settled(Before, now) = NoStamp
        \/ /\ Settled(Before, now) = now
           /\ db.inode = reading.inode /\ versions[cache.conn] = reading.version
    BY <1>4 DEF Settled
  <1> HIDE DEF now
  <1>6. /\ kept \in Caches
        /\ kept.conn = cache.conn /\ kept.identity = cache.identity /\ kept.token = reading.token
        /\ kept.stamp = Settled(Before, now)
    BY <1>2, <1>3, <1>4, <1>5 DEF DatabaseTypeOK, Tokens, Caches
  <1> HIDE DEF kept
  <1>7. /\ reading' \in Readings
        /\ reading'.step = "answer" /\ reading'.token = reading.token
    BY <1>1, <1>3, InodeFacts DEF Answer, Idle, Asking, Caches, Readings
  <1>8. DatabaseTypeOK'
    BY <1>1, <1>2, <1>6, <1>7 DEF DatabaseTypeOK
  <1>9. QuestionIsKept' /\ ConnectionIsKept' /\ ReadingIsKept'
    BY <1>1, <1>3, <1>6, <1>7 DEF QuestionIsKept, ConnectionIsKept, ReadingIsKept, Asking
  <1>10. StampIsKept'
    <2>1. CASE Settled(Before, now) = NoStamp
      BY <1>1, <1>6, <1>7, <2>1 DEF StampIsKept, Stamped
    <2>2. CASE /\ Settled(Before, now) = now
               /\ db.inode = reading.inode /\ versions[cache.conn] = reading.version
      <3>1. cache.conn = db.inode /\ cache.identity = db.inode
        BY <1>3, <2>2
      <3>2. reading.token = db.content /\ reading.token # NoToken
        BY <1>1, <1>3, <2>2, <3>1, ContentAssumption DEF DatabaseInv, ReadingIsKept
      <3> QED
        BY <1>1, <1>3, <1>4, <1>6, <1>7, <2>2, <3>1, <3>2 DEF StampIsKept, Stamped
    <2> QED
      BY <1>5, <2>1, <2>2
  <1> QED
    BY <1>8, <1>9, <1>10 DEF DatabaseInv

LEMMA ReadFailsHolds == ASSUME DatabaseInv, ReadFails PROVE DatabaseInv'
  <1> DEFINE lost == [cache EXCEPT !.stamp = NoStamp]
  <1>1. UNCHANGED <<db, versions>> /\ cache' = lost /\ reading' = Idle /\ during' = {}
    BY DEF ReadFails
  <1>2. DatabaseTypeOK
    BY DEF DatabaseInv
  <1>3. /\ lost \in Caches
        /\ lost.conn = cache.conn /\ lost.identity = cache.identity /\ lost.stamp = NoStamp
    BY <1>2, InodeFacts DEF DatabaseTypeOK, NoStamp, Caches, Readings
  <1> HIDE DEF lost
  <1>4. /\ Idle \in Readings
        /\ Idle.step = "idle"
    BY InodeFacts DEF Idle, Caches, Readings
  <1>5. DatabaseTypeOK'
    BY <1>1, <1>2, <1>3, <1>4 DEF DatabaseTypeOK
  <1>6. QuestionIsKept' /\ ConnectionIsKept' /\ StampIsKept' /\ ReadingIsKept'
    BY <1>1, <1>3, <1>4 DEF DatabaseInv, QuestionIsKept, ConnectionIsKept, StampIsKept, Stamped,
                            ReadingIsKept, Asking
  <1> QED
    BY <1>5, <1>6 DEF DatabaseInv

----------------------------------------------------------------------------
(* The running menu.                                                       *)
RuntimeTypeOK ==
    /\ sequence \in Contents /\ parts \in [Parts -> Contents]
    /\ known \in [Keys -> Definitions \cup {Absent}]
    /\ live \in [Keys -> Definitions \cup {Absent}]
    /\ lock \in {"free", "refresh", "unload"}
    /\ menu \in [content : Tokens, next : [Keys -> Definitions \cup {Absent}], at : Nat]
    /\ startup \in [ready : BOOLEAN, observed : BOOLEAN, due : Nat]
    /\ entry \in [closed : BOOLEAN, cleared : BOOLEAN, stopped : BOOLEAN]
    /\ unloaded \in BOOLEAN /\ skewed \in SUBSET {"start", "half-way", "discovery"}

(* Entity k runs as content c says, or waits for its appliance.            *)
RunsAs(f, c, k) == f[k] = Menu[c][k] \/ (k \in Late /\ f[k] = Absent)

(* Who holds the lock, and the runtime's record of what runs.              *)
LockIsKept ==
    /\ lock = "refresh" <=> reading.step \in {"apply"} \cup Applying
    /\ unloaded => entry.closed /\ entry.cleared /\ lock = "free"
    /\ ~unloaded => known = live
    /\ unloaded => \A k \in Keys : live[k] = Absent
    /\ \A p, q \in Parts : parts[p] = parts[q]

(* Between two refreshes, and until one of them has changed anything.      *)
BetweenRefreshes ==
    reading.step \notin Applying /\ skewed \subseteq {"discovery"} /\ ~entry.cleared =>
        parts["controls"] = sequence /\ \A k \in Keys : RunsAs(live, sequence, k)

(* While a content is applied, the platforms before the one under way are  *)
(* done.                                                                   *)
WhileApplying ==
    /\ reading.step = "apply" => menu.content \in Contents
    /\ reading.step \in Applying =>
          /\ menu.content \in Contents /\ parts["controls"] = menu.content
          /\ \A k \in Keys : RunsAs(menu.next, menu.content, k)
    /\ reading.step \in {"platforms", "inside"} => menu.at > 0
    /\ reading.step \in {"platforms", "inside"} =>
          \A k \in Keys : PlatformOf[k] < menu.at => live[k] = menu.next[k]
    /\ reading.step = "done" /\ ~entry.cleared => live = menu.next

MenuInv == RuntimeTypeOK /\ LockIsKept /\ BetweenRefreshes /\ WhileApplying

LEMMA StepFacts ==
    /\ Idle \in Readings /\ Idle.step = "idle"
    /\ \A step \in {"idle", "refresh", "apply"} \cup Applying :
          [Idle EXCEPT !.step = step] \in Readings /\ [Idle EXCEPT !.step = step].step = step
  BY InodeFacts DEF Idle, Readings

(* The steps of the watcher's question and of the database's owner.        *)
LEMMA MenuIsLeft ==
    ASSUME MenuInv, UNCHANGED runtimeVars,
           \/ reading' = reading
           \/ /\ reading.step \notin {"apply"} \cup Applying
              /\ reading'.step \notin {"apply"} \cup Applying
    PROVE  MenuInv'
  <1>1. /\ UNCHANGED <<sequence, parts, known, live, lock, menu, skewed, startup, entry, unloaded>>
        /\ reading.step \in {"apply"} \cup Applying <=> reading'.step \in {"apply"} \cup Applying
        /\ reading'.step \in {"apply"} \cup Applying => reading'.step = reading.step
    BY DEF runtimeVars, menuVars, lifeVars
  <1>2. RuntimeTypeOK'
    BY <1>1 DEF MenuInv, RuntimeTypeOK
  <1>3. LockIsKept'
    BY <1>1 DEF MenuInv, LockIsKept
  <1>4. BetweenRefreshes'
    BY <1>1 DEF MenuInv, BetweenRefreshes, RunsAs, LockIsKept
  <1>5. WhileApplying'
    BY <1>1 DEF MenuInv, WhileApplying, RunsAs, Applying
  <1> QED
    BY <1>2, <1>3, <1>4, <1>5 DEF MenuInv

LEMMA NoMenuFacts ==
    /\ NoMenu \in [content : Tokens, next : [Keys -> Definitions \cup {Absent}], at : Nat]
    /\ \A c \in Contents : [NoMenu EXCEPT !.content = c] \in
          [content : Tokens, next : [Keys -> Definitions \cup {Absent}], at : Nat]
    /\ \A c \in Contents : [NoMenu EXCEPT !.content = c].content = c
  BY InodeFacts DEF NoMenu

LEMMA LoadHolds == ASSUME MenuInv, DatabaseInv, Load PROVE MenuInv'
  <1>1. /\ ~entry.closed /\ lock' = "refresh" /\ reading.step = "refresh" /\ lock = "free"
        /\ menu' = [NoMenu EXCEPT !.content = db.content] /\ reading' = [Idle EXCEPT !.step = "apply"]
        /\ UNCHANGED <<sequence, parts, known, live, skewed, startup, entry, unloaded>>
    BY DEF Load, Waits, Step, lifeVars
  <1>2. reading'.step = "apply" /\ reading'.step \notin Applying /\ reading.step \notin Applying
    BY <1>1, StepFacts DEF Applying
  <1>3. db.content \in Contents
    BY DEF DatabaseInv, DatabaseTypeOK
  <1>4. /\ menu'.content = db.content
        /\ menu' \in [content : Tokens, next : [Keys -> Definitions \cup {Absent}], at : Nat]
    BY <1>1, <1>3, NoMenuFacts
  <1>5. RuntimeTypeOK'
    BY <1>1, <1>4 DEF MenuInv, RuntimeTypeOK
  <1>6. LockIsKept' /\ BetweenRefreshes'
    BY <1>1, <1>2 DEF MenuInv, LockIsKept, BetweenRefreshes, RunsAs
  <1>7. WhileApplying'
    BY <1>2, <1>3, <1>4 DEF WhileApplying, Applying
  <1> QED
    BY <1>5, <1>6, <1>7 DEF MenuInv

LEMMA RejectHolds == ASSUME MenuInv, Reject PROVE MenuInv'
  <1>1. /\ reading.step = "apply" /\ lock' = "free" /\ menu' = NoMenu /\ reading' = Idle
        /\ parts' = [p \in Parts |-> parts[p]]
        /\ UNCHANGED <<sequence, known, live, skewed, startup, entry, unloaded>>
    BY DEF Reject, Raise, EndCheck, Restored, lifeVars
  <1>2. reading'.step = "idle" /\ reading.step \notin Applying /\ lock = "refresh"
    BY <1>1, StepFacts DEF Applying, MenuInv, LockIsKept
  <1>3. parts' = parts
    BY <1>1 DEF MenuInv, RuntimeTypeOK
  <1>4. RuntimeTypeOK'
    BY <1>1, <1>3, NoMenuFacts DEF MenuInv, RuntimeTypeOK
  <1>5. LockIsKept' /\ BetweenRefreshes' /\ WhileApplying'
    BY <1>1, <1>2, <1>3 DEF MenuInv, LockIsKept, BetweenRefreshes, RunsAs, WhileApplying, Applying
  <1> QED
    BY <1>4, <1>5 DEF MenuInv

(* The definitions a content gives, in their order of platforms.           *)
LEMMA MenuFacts ==
    /\ Menu \in [Contents -> [Keys -> Definitions \cup {Absent}]]
    /\ \A k \in Keys : PlatformOf[k] \in 1..Len(Platforms)
    /\ Len(Platforms) \in Nat
    /\ \A c \in Contents, isReady \in BOOLEAN :
          /\ Build(c, isReady) \in [Keys -> Definitions \cup {Absent}]
          /\ \A k \in Keys : RunsAs(Build(c, isReady), c, k)
  <1>1. /\ Menu \in [Contents -> [Keys -> Definitions \cup {Absent}]]
        /\ PlatformOf \in [Keys -> DOMAIN Platforms]
        /\ Platforms \in Seq({Platforms[i] : i \in DOMAIN Platforms})
    BY MenuAssumption
  <1>2. DOMAIN Platforms = 1..Len(Platforms) /\ Len(Platforms) \in Nat
    BY <1>1, LenProperties
  <1>3. \A c \in Contents, isReady \in BOOLEAN :
           /\ Build(c, isReady) \in [Keys -> Definitions \cup {Absent}]
           /\ \A k \in Keys : RunsAs(Build(c, isReady), c, k)
    BY <1>1 DEF Build, RunsAs
  <1> QED
    BY <1>1, <1>2, <1>3

LEMMA ApplyHolds == ASSUME MenuInv, Apply PROVE MenuInv'
  <1> DEFINE built == Build(menu.content, startup.ready)
             begun == [menu EXCEPT !.next = built, !.at = 1]
  <1>1. /\ reading.step = "apply" /\ ~entry.closed /\ menu' = begun
        /\ parts' = [p \in Parts |-> menu.content]
        /\ reading' = [Idle EXCEPT !.step = IF entry.cleared THEN "done" ELSE "platforms"]
        /\ UNCHANGED <<sequence, known, live, lock, skewed, startup, entry, unloaded>>
    BY DEF Apply, Step, lifeVars
  <1>2. menu.content \in Contents /\ startup.ready \in BOOLEAN /\ lock = "refresh"
    BY <1>1 DEF MenuInv, WhileApplying, RuntimeTypeOK, LockIsKept
  <1>3. /\ built \in [Keys -> Definitions \cup {Absent}]
        /\ \A k \in Keys : RunsAs(built, menu.content, k)
    BY <1>2, MenuFacts
  <1> HIDE DEF built
  <1>4. /\ begun \in [content : Tokens, next : [Keys -> Definitions \cup {Absent}], at : Nat]
        /\ begun.content = menu.content /\ begun.next = built /\ begun.at = 1
    BY <1>3 DEF MenuInv, RuntimeTypeOK
  <1> HIDE DEF begun
  <1>5. reading'.step \in Applying /\ reading'.step = IF entry.cleared THEN "done" ELSE "platforms"
    BY <1>1, StepFacts DEF Applying
  <1>6. RuntimeTypeOK'
    BY <1>1, <1>2, <1>4 DEF MenuInv, RuntimeTypeOK
  <1>7. LockIsKept'
    BY <1>1, <1>2, <1>5 DEF MenuInv, LockIsKept
  <1>8. BetweenRefreshes'
    BY <1>5 DEF BetweenRefreshes
  <1>9. WhileApplying'
    <2>1. \A k \in Keys : ~(PlatformOf[k] < 1)
      BY MenuFacts
    <2>2. reading'.step # "apply"
      BY <1>5
    <2>3. \A k \in Keys : RunsAs(menu'.next, menu'.content, k)
      BY <1>1, <1>3, <1>4
    <2> QED
      BY <1>1, <1>2, <1>4, <1>5, <2>1, <2>2, <2>3 DEF WhileApplying, Parts, RunsAs
  <1> QED
    BY <1>6, <1>7, <1>8, <1>9 DEF MenuInv

(* A refresh that ends in the middle says so.                              *)
LEMMA BrokenOffHolds ==
    ASSUME MenuInv, reading.step \in Applying, Raise, skewed' = skewed \cup {"half-way"},
           UNCHANGED <<sequence, parts, known, live, lifeVars>>
    PROVE  MenuInv'
  <1>1. /\ lock' = "free" /\ menu' = NoMenu /\ reading' = Idle
        /\ UNCHANGED <<sequence, parts, known, live, startup, entry, unloaded>>
    BY DEF Raise, EndCheck, lifeVars
  <1>2. reading'.step = "idle" /\ lock = "refresh"
    BY <1>1, StepFacts DEF MenuInv, LockIsKept
  <1>3. RuntimeTypeOK'
    BY <1>1, NoMenuFacts DEF MenuInv, RuntimeTypeOK
  <1>4. LockIsKept' /\ BetweenRefreshes' /\ WhileApplying'
    BY <1>1, <1>2 DEF MenuInv, LockIsKept, BetweenRefreshes, WhileApplying, Applying
  <1> QED
    BY <1>3, <1>4 DEF MenuInv

LEMMA OnPlatformFacts ==
    ASSUME MenuInv, OnPlatform
    PROVE  /\ reading.step \in {"platforms", "inside"} /\ reading.step \in Applying
           /\ lock = "refresh" /\ ~unloaded /\ known = live /\ menu.at \in Nat
           /\ menu.content \in Contents /\ menu.next \in [Keys -> Definitions \cup {Absent}]
           /\ live \in [Keys -> Definitions \cup {Absent}]
  BY DEF OnPlatform, Applying, MenuInv, LockIsKept, RuntimeTypeOK, WhileApplying

LEMMA RemoveHolds == ASSUME MenuInv, NEW k \in Keys, Remove(k) PROVE MenuInv'
  <1>1. /\ OnPlatform /\ PlatformOf[k] = menu.at /\ live' = [live EXCEPT ![k] = Absent]
        /\ known' = [known EXCEPT ![k] = Absent] /\ reading' = [Idle EXCEPT !.step = "inside"]
        /\ UNCHANGED <<sequence, parts, lock, menu, skewed, startup, entry, unloaded>>
    BY DEF Remove, Retiring, OfPlatform, Step, lifeVars
  <1>2. /\ reading.step \in {"platforms", "inside"} /\ reading.step \in Applying
        /\ lock = "refresh" /\ ~unloaded /\ known = live /\ menu.at \in Nat
        /\ live \in [Keys -> Definitions \cup {Absent}]
    BY <1>1, OnPlatformFacts
  <1>3. reading'.step = "inside" /\ reading'.step \in Applying
    BY <1>1, StepFacts DEF Applying
  <1>4. live' \in [Keys -> Definitions \cup {Absent}] /\ known' = live'
    BY <1>1, <1>2
  <1>5. RuntimeTypeOK'
    BY <1>1, <1>4 DEF MenuInv, RuntimeTypeOK
  <1>6. LockIsKept' /\ BetweenRefreshes'
    BY <1>1, <1>2, <1>3, <1>4 DEF MenuInv, LockIsKept, BetweenRefreshes
  <1>7. WhileApplying'
    <2>1. \A j \in Keys : PlatformOf[j] < menu.at => live'[j] = live[j]
      BY <1>1, <1>2
    <2> QED
      BY <1>1, <1>2, <1>3, <2>1 DEF MenuInv, WhileApplying, RunsAs
  <1> QED
    BY <1>5, <1>6, <1>7 DEF MenuInv

LEMMA AddPlatformHolds == ASSUME MenuInv, AddPlatform PROVE MenuInv'
  <1> DEFINE moved == [menu EXCEPT !.at = @ + 1]
  <1>1. /\ OnPlatform /\ Retiring = {} /\ live' = Adopted(live) /\ known' = Adopted(known)
        /\ menu' = moved
        /\ reading' = [Idle EXCEPT !.step = IF menu.at = Len(Platforms) THEN "done" ELSE "platforms"]
        /\ UNCHANGED <<sequence, parts, lock, skewed, startup, entry, unloaded>>
    BY DEF AddPlatform, Step, lifeVars
  <1>2. /\ reading.step \in {"platforms", "inside"} /\ reading.step \in Applying
        /\ lock = "refresh" /\ ~unloaded /\ known = live /\ menu.at \in Nat
        /\ menu.content \in Contents /\ menu.next \in [Keys -> Definitions \cup {Absent}]
        /\ live \in [Keys -> Definitions \cup {Absent}]
    BY <1>1, OnPlatformFacts
  <1>3. /\ moved \in [content : Tokens, next : [Keys -> Definitions \cup {Absent}], at : Nat]
        /\ moved.at = menu.at + 1 /\ moved.next = menu.next /\ moved.content = menu.content
    BY <1>2 DEF MenuInv, RuntimeTypeOK
  <1> HIDE DEF moved
  <1>4. /\ live' \in [Keys -> Definitions \cup {Absent}] /\ known' = live'
        /\ \A k \in Keys : live'[k] = IF k \in Missing THEN menu.next[k] ELSE live[k]
    BY <1>1, <1>2 DEF Adopted
  <1>5. \A k \in Keys : PlatformOf[k] = menu.at => live'[k] = menu.next[k]
    BY <1>1, <1>2, <1>4 DEF Retiring, Missing, OfPlatform, Retires
  <1>6. \A k \in Keys : PlatformOf[k] < menu.at => live'[k] = menu.next[k]
    <2>1. \A k \in Keys : PlatformOf[k] < menu.at => live[k] = menu.next[k]
      BY <1>2 DEF MenuInv, WhileApplying
    <2>2. \A k \in Missing : PlatformOf[k] = menu.at
      BY DEF Missing, OfPlatform
    <2> QED
      BY <1>2, <1>4, <2>1, <2>2
  <1>7. \A k \in Keys : PlatformOf[k] < menu.at + 1 => live'[k] = menu.next[k]
    BY <1>2, <1>5, <1>6, MenuFacts
  <1>8. /\ reading'.step = IF menu.at = Len(Platforms) THEN "done" ELSE "platforms"
        /\ reading'.step \in Applying
    BY <1>1, StepFacts DEF Applying
  <1>9. RuntimeTypeOK'
    BY <1>1, <1>3, <1>4 DEF MenuInv, RuntimeTypeOK
  <1>10. LockIsKept' /\ BetweenRefreshes'
    BY <1>1, <1>2, <1>4, <1>8 DEF MenuInv, LockIsKept, BetweenRefreshes
  <1>11. WhileApplying'
    <2>1. reading'.step = "done" => live' = menu.next
      <3>1. reading'.step = "done" => \A k \in Keys : live'[k] = menu.next[k]
        BY <1>2, <1>7, <1>8, MenuFacts
      <3> QED
        BY <1>2, <1>4, <3>1
    <2> QED
      BY <1>1, <1>2, <1>3, <1>7, <1>8, <2>1 DEF MenuInv, WhileApplying, RunsAs
  <1> QED
    BY <1>9, <1>10, <1>11 DEF MenuInv

LEMMA FinishHolds == ASSUME MenuInv, Finish PROVE MenuInv'
  <1>1. /\ reading.step = "done" /\ sequence' = menu.content /\ skewed' = {}
        /\ lock' = "free" /\ menu' = NoMenu /\ reading' = Idle
        /\ UNCHANGED <<parts, known, live, startup, entry, unloaded>>
    BY DEF Finish, Remembered, Raise, EndCheck, lifeVars
  <1>2. reading'.step = "idle" /\ reading.step \in Applying /\ lock = "refresh"
    BY <1>1, StepFacts DEF Applying, MenuInv, LockIsKept
  <1>3. /\ menu.content \in Contents /\ parts["controls"] = menu.content
        /\ \A k \in Keys : RunsAs(menu.next, menu.content, k)
        /\ ~entry.cleared => live = menu.next
    BY <1>1, <1>2 DEF MenuInv, WhileApplying
  <1>4. RuntimeTypeOK'
    BY <1>1, <1>3, NoMenuFacts DEF MenuInv, RuntimeTypeOK
  <1>5. LockIsKept' /\ BetweenRefreshes' /\ WhileApplying'
    BY <1>1, <1>2, <1>3 DEF MenuInv, LockIsKept, BetweenRefreshes, RunsAs, WhileApplying, Applying
  <1> QED
    BY <1>4, <1>5 DEF MenuInv

LEMMA DiscoverHolds == ASSUME MenuInv, Discover PROVE MenuInv'
  <1>1. /\ startup.due > 0 /\ lock = "free" /\ startup' = [startup EXCEPT !.due = @ - 1]
        /\ IF entry.closed \/ entry.cleared THEN UNCHANGED <<known, live>>
           ELSE live' = Completed(live) /\ known' = Completed(known)
        /\ UNCHANGED <<reading, sequence, parts, lock, menu, skewed, entry, unloaded>>
    BY DEF Discover, Due, Discovered, dbVars
  <1>2. startup' \in [ready : BOOLEAN, observed : BOOLEAN, due : Nat]
    BY <1>1 DEF MenuInv, RuntimeTypeOK
  <1> DEFINE built == Build(parts["controls"], startup.ready)
  <1>3. /\ parts["controls"] \in Contents /\ built \in [Keys -> Definitions \cup {Absent}]
        /\ \A k \in Keys : RunsAs(built, parts["controls"], k)
    <2>1. parts["controls"] \in Contents /\ startup.ready \in BOOLEAN
      BY DEF MenuInv, RuntimeTypeOK, Parts
    <2> QED
      BY <2>1, MenuFacts
  <1>4. ~entry.cleared /\ ~entry.closed =>
           /\ \A k \in Keys : live'[k] = IF live[k] = Absent THEN built[k] ELSE live[k]
           /\ live' \in [Keys -> Definitions \cup {Absent}] /\ known' = live' /\ ~unloaded
    <2>1. ~unloaded => known = live
      BY DEF MenuInv, LockIsKept
    <2>2. ~entry.cleared => ~unloaded
      BY DEF MenuInv, LockIsKept
    <2>3. live \in [Keys -> Definitions \cup {Absent}]
      BY DEF MenuInv, RuntimeTypeOK
    <2>4. ~entry.cleared /\ ~entry.closed =>
             live' = [k \in Keys |-> IF live[k] = Absent THEN built[k] ELSE live[k]] /\ known' = live'
      BY <1>1, <2>1, <2>2 DEF Completed
    <2> QED
      BY <1>3, <2>2, <2>3, <2>4
  <1> HIDE DEF built
  <1>5. RuntimeTypeOK'
    BY <1>1, <1>2, <1>4 DEF MenuInv, RuntimeTypeOK
  <1>6. LockIsKept'
    BY <1>1, <1>4 DEF MenuInv, LockIsKept
  <1>7. BetweenRefreshes'
    BY <1>1, <1>3, <1>4 DEF MenuInv, BetweenRefreshes, RunsAs
  <1>8. WhileApplying'
    BY <1>1 DEF MenuInv, LockIsKept, WhileApplying, Applying
  <1> QED
    BY <1>5, <1>6, <1>7, <1>8 DEF MenuInv

(* The appliance's readiness, discoveries that fail, and the stop of the   *)
(* watcher change nothing of what runs.                                    *)
LEMMA LifeHolds ==
    ASSUME MenuInv, UNCHANGED <<reading, sequence, parts, known, live, lock, menu, unloaded>>,
           startup' \in [ready : BOOLEAN, observed : BOOLEAN, due : Nat],
           entry' \in [closed : BOOLEAN, cleared : BOOLEAN, stopped : BOOLEAN],
           entry.cleared => entry'.cleared, unloaded => entry'.closed,
           skewed' = skewed \/ skewed' = skewed \cup {"discovery"}
    PROVE  MenuInv'
  <1>1. RuntimeTypeOK'
    BY DEF MenuInv, RuntimeTypeOK
  <1>2. LockIsKept' /\ BetweenRefreshes' /\ WhileApplying'
    BY DEF MenuInv, LockIsKept, BetweenRefreshes, WhileApplying, RunsAs
  <1> QED
    BY <1>1, <1>2 DEF MenuInv

LEMMA UnloadHolds == ASSUME MenuInv, Unload \/ UnloadRefused PROVE MenuInv'
  <1>1. /\ UNCHANGED <<reading, sequence, parts, known, live, menu, skewed, startup, unloaded>>
        /\ ~unloaded /\ lock \in {"free", "unload"} /\ lock' \in {"free", "unload"}
        /\ entry' = [entry EXCEPT !.closed = TRUE] \/ entry' = [entry EXCEPT !.closed = FALSE]
    BY DEF Unload, UnloadRefused, MayUnload, dbVars, MenuInv, LockIsKept
  <1>2. /\ entry' \in [closed : BOOLEAN, cleared : BOOLEAN, stopped : BOOLEAN]
        /\ entry'.cleared = entry.cleared
    BY <1>1 DEF MenuInv, RuntimeTypeOK
  <1>3. RuntimeTypeOK'
    BY <1>1, <1>2 DEF MenuInv, RuntimeTypeOK
  <1>4. LockIsKept' /\ BetweenRefreshes' /\ WhileApplying'
    BY <1>1, <1>2 DEF MenuInv, LockIsKept, BetweenRefreshes, WhileApplying, RunsAs
  <1> QED
    BY <1>3, <1>4 DEF MenuInv

LEMMA UnloadedHolds == ASSUME MenuInv, Unloaded PROVE MenuInv'
  <1>1. /\ UNCHANGED <<reading, sequence, parts, known, menu, skewed>>
        /\ lock = "unload" /\ lock' = "free" /\ entry' = Close(entry)
        /\ startup' = [startup EXCEPT !.due = 0]
        /\ live' = [k \in Keys |-> Absent] /\ unloaded' = TRUE
    BY DEF Unloaded, dbVars
  <1>2. /\ entry' \in [closed : BOOLEAN, cleared : BOOLEAN, stopped : BOOLEAN]
        /\ entry'.cleared /\ entry'.closed
        /\ startup' \in [ready : BOOLEAN, observed : BOOLEAN, due : Nat]
    BY <1>1 DEF MenuInv, RuntimeTypeOK, Close
  <1>3. RuntimeTypeOK'
    BY <1>1, <1>2 DEF MenuInv, RuntimeTypeOK
  <1>4. LockIsKept' /\ BetweenRefreshes' /\ WhileApplying'
    BY <1>1, <1>2 DEF MenuInv, LockIsKept, BetweenRefreshes, WhileApplying, Applying
  <1> QED
    BY <1>3, <1>4 DEF MenuInv

LEMMA MenuInitHolds == Init => DatabaseInv /\ MenuInv
  <1> SUFFICES ASSUME Init
               PROVE  DatabaseInv /\ MenuInv
    OBVIOUS
  <1>1. DatabaseInv /\ reading.step = "idle"
    BY DatabaseInitHolds DEF Init, InitDatabase, Idle
  <1>2. PICK isReady \in BOOLEAN :
           /\ startup = [ready |-> isReady, observed |-> isReady, due |-> 0]
           /\ live = Build(FirstContent, isReady)
    BY DEF Init
  <1>3. /\ live \in [Keys -> Definitions \cup {Absent}]
        /\ \A k \in Keys : RunsAs(live, FirstContent, k)
    BY <1>2, MenuFacts, ContentAssumption
  <1>4. /\ sequence \in Contents /\ parts = [p \in Parts |-> FirstContent] /\ known = live
        /\ lock = "free" /\ menu = NoMenu /\ ~unloaded /\ unloaded \in BOOLEAN
        /\ entry = [closed |-> FALSE, cleared |-> FALSE, stopped |-> FALSE]
        /\ skewed = IF sequence # FirstContent THEN {"start"} ELSE {}
    BY DEF Init
  <1>5. RuntimeTypeOK
    BY <1>2, <1>3, <1>4, NoMenuFacts, ContentAssumption DEF RuntimeTypeOK
  <1>6. LockIsKept /\ BetweenRefreshes /\ WhileApplying
    BY <1>1, <1>3, <1>4 DEF LockIsKept, BetweenRefreshes, WhileApplying, Applying, Parts
  <1> QED
    BY <1>1, <1>5, <1>6 DEF MenuInv

(* A step of the refresh leaves the database as it was.                    *)
LEMMA RefreshHolds == ASSUME DatabaseInv, MenuInv, Refresh \/ LoadFails \/ PlatformFails
                      PROVE  DatabaseInv' /\ MenuInv'
  <1>1. UNCHANGED <<db, versions, cache>> /\ during' = {}
        /\ reading' \in Readings /\ reading'.step \notin Asking
    <2>1. /\ UNCHANGED <<db, versions, cache>> /\ during' = {}
          /\ \/ reading' = Idle
             \/ \E step \in {"refresh", "apply", "platforms", "inside", "done"} :
                   reading' = [Idle EXCEPT !.step = step]
      <3>1. CASE \/ Same \/ Refused \/ LoadFails \/ Reject \/ Interrupted \/ PlatformFails \/ Finish
        BY <3>1 DEF Same, Refused, LoadFails, Reject, Interrupted, PlatformFails, Finish, Raise, EndCheck
      <3>2. CASE Differs \/ Load \/ \E k \in Keys : Remove(k)
        BY <3>2 DEF Differs, Load, Remove, Step
      <3>3. CASE Apply
        BY <3>3 DEF Apply, Step
      <3>4. CASE AddPlatform
        BY <3>4 DEF AddPlatform, Step
      <3> QED
        BY <3>1, <3>2, <3>3, <3>4 DEF Refresh
    <2>2. /\ reading' \in Readings
          /\ reading'.step \in {"idle", "refresh", "apply", "platforms", "inside", "done"}
      BY <2>1, StepFacts DEF Applying
    <2> QED
      BY <2>1, <2>2 DEF Asking
  <1>2. DatabaseInv'
    BY <1>1, DatabaseIsLeft
  <1> SUFFICES MenuInv'
    BY <1>2
  <1>3. CASE Same \/ Refused \/ LoadFails
    <2>1. UNCHANGED runtimeVars /\ reading.step \in {"answer", "refresh"} /\ reading' = Idle
      BY <1>3 DEF Same, Refused, LoadFails, Waits, EndCheck
    <2> QED
      BY <2>1, StepFacts, MenuIsLeft DEF Applying
  <1>4. CASE Differs
    <2>1. /\ UNCHANGED runtimeVars /\ reading.step = "answer"
          /\ reading' = [Idle EXCEPT !.step = "refresh"]
      BY <1>4 DEF Differs, Step
    <2>2. reading'.step = "refresh"
      BY <2>1, StepFacts
    <2> QED
      BY <2>1, <2>2, MenuIsLeft DEF Applying
  <1>5. CASE Load
    BY <1>5, LoadHolds
  <1>6. CASE Reject
    BY <1>6, RejectHolds
  <1>7. CASE Apply
    BY <1>7, ApplyHolds
  <1>8. CASE Interrupted
    BY <1>8, BrokenOffHolds DEF Interrupted, Applying
  <1>9. ASSUME NEW k \in Keys, Remove(k) PROVE MenuInv'
    BY <1>9, RemoveHolds
  <1>10. CASE AddPlatform
    BY <1>10, AddPlatformHolds
  <1>11. CASE Finish
    BY <1>11, FinishHolds
  <1>12. CASE PlatformFails
    <2>1. reading.step \in Applying
      BY <1>12, OnPlatformFacts DEF PlatformFails
    <2> QED
      BY <1>12, <2>1, BrokenOffHolds DEF PlatformFails
  <1> QED
    BY <1>3, <1>4, <1>5, <1>6, <1>7, <1>8, <1>9, <1>10, <1>11, <1>12 DEF Refresh

LEMMA MenuInvIsKept == DatabaseInv /\ MenuInv /\ [Next]_vars => DatabaseInv' /\ MenuInv'
  <1> SUFFICES ASSUME DatabaseInv, MenuInv, [Next]_vars
               PROVE  DatabaseInv' /\ MenuInv'
    OBVIOUS
  <1>1. ASSUME UNCHANGED dbVars PROVE DatabaseInv'
    BY <1>1 DEF dbVars, DatabaseInv, DatabaseTypeOK, QuestionIsKept, ConnectionIsKept, StampIsKept,
                Stamped, ReadingIsKept
  <1>2. CASE Edit
    <2>1. UNCHANGED runtimeVars /\ reading' = reading
      BY <1>2 DEF Edit, Commit, ReplaceFile
    <2> QED
      BY <1>2, <2>1, MenuIsLeft, CommitHolds, ReplaceHolds DEF Edit
  <1>3. CASE Check
    <2>1. UNCHANGED runtimeVars /\ reading.step = "idle" /\ reading'.step = "version"
      BY <1>3 DEF Check, Files, DatabaseInv, DatabaseTypeOK, Readings
    <2> QED
      BY <1>3, <2>1, MenuIsLeft, FilesHolds DEF Check, Applying
  <1>4. CASE CheckStep \/ CheckFails
    <2>1. UNCHANGED runtimeVars /\ reading.step \in {"version", "read", "after"}
      BY <1>4 DEF CheckStep, ReadStep, CheckFails, Version, Read, After, ReadFails
    <2>2. reading'.step \in {"idle", "read", "after", "answer"}
      <3>1. reading \in Readings
        BY DEF DatabaseInv, DatabaseTypeOK
      <3>2. CASE Version
        <4>1. \/ reading' = [reading EXCEPT !.step = "answer", !.token = cache.token]
              \/ reading' = [reading EXCEPT !.step = "read", !.version = versions[cache'.conn]]
          BY <3>2 DEF Version
        <4> QED
          BY <3>1, <4>1 DEF Readings
      <3>3. CASE Read
        BY <3>1, <3>3 DEF Read, Readings
      <3>4. CASE After
        BY <3>4 DEF After, Answer, Idle
      <3>5. CASE ReadFails
        BY <3>5 DEF ReadFails, Idle
      <3> QED
        BY <1>4, <3>2, <3>3, <3>4, <3>5 DEF CheckStep, ReadStep, CheckFails
    <2>3. DatabaseInv'
      BY <1>4, VersionHolds, ReadHolds, AfterHolds, ReadFailsHolds DEF CheckStep, ReadStep, CheckFails
    <2> QED
      BY <2>1, <2>2, <2>3, MenuIsLeft DEF Applying
  <1>5. CASE Refresh \/ LoadFails \/ PlatformFails
    BY <1>5, RefreshHolds
  <1>6. CASE BecomesReady \/ Recovered
    <2>1. /\ UNCHANGED dbVars /\ UNCHANGED <<sequence, parts, known, live, lock, menu, skewed, entry, unloaded>>
          /\ startup' \in [ready : BOOLEAN, observed : BOOLEAN, due : Nat]
      <3>1. startup \in [ready : BOOLEAN, observed : BOOLEAN, due : Nat]
        BY DEF MenuInv, RuntimeTypeOK
      <3>2. CASE BecomesReady
        BY <3>1, <3>2 DEF BecomesReady, menuVars
      <3>3. CASE Recovered
        <4> DEFINE seen == startup.ready
                   due == startup.due + 1
        <4>0. seen \in BOOLEAN /\ due \in Nat
          BY <3>1
        <4>1. /\ startup' = [startup EXCEPT !.observed = seen, !.due = due]
              /\ UNCHANGED <<dbVars, sequence, parts, known, live, lock, menu, skewed, entry, unloaded>>
          BY <3>3 DEF Recovered, menuVars
        <4> HIDE DEF seen, due
        <4>2. startup' \in [ready : BOOLEAN, observed : BOOLEAN, due : Nat]
          BY <3>1, <4>0, <4>1
        <4> QED
          BY <4>1, <4>2
      <3> QED
        BY <1>6, <3>2, <3>3
    <2> QED
      BY <1>1, <2>1, LifeHolds DEF dbVars, MenuInv, RuntimeTypeOK, LockIsKept
  <1>7. CASE Discover
    BY <1>1, <1>7, DiscoverHolds DEF Discover
  <1>8. CASE DiscoverFails
    <2>1. /\ UNCHANGED <<db, versions, cache, reading, during>> /\ skewed' = skewed \cup {"discovery"}
          /\ UNCHANGED <<sequence, parts, known, live, lock, menu, entry, unloaded>>
          /\ startup' \in [ready : BOOLEAN, observed : BOOLEAN, due : Nat]
      BY <1>8 DEF DiscoverFails, Due, Discovered, MenuInv, RuntimeTypeOK
    <2>2. DatabaseInv'
      BY <2>1 DEF DatabaseInv, DatabaseTypeOK, QuestionIsKept, ConnectionIsKept, StampIsKept,
                  Stamped, ReadingIsKept
    <2> QED
      BY <2>1, <2>2, LifeHolds DEF MenuInv, RuntimeTypeOK, LockIsKept
  <1>9. CASE Unload \/ UnloadRefused
    BY <1>1, <1>9, UnloadHolds DEF Unload, UnloadRefused
  <1>10. CASE Unloaded
    BY <1>1, <1>10, UnloadedHolds DEF Unloaded
  <1>11. CASE StopRuntime
    <2>1. /\ UNCHANGED dbVars /\ UNCHANGED <<sequence, parts, known, live, lock, menu, skewed, unloaded>>
          /\ startup' = [startup EXCEPT !.due = 0] /\ entry' = Close(entry)
      BY <1>11 DEF StopRuntime, menuVars
    <2>2. /\ startup' \in [ready : BOOLEAN, observed : BOOLEAN, due : Nat]
          /\ entry' \in [closed : BOOLEAN, cleared : BOOLEAN, stopped : BOOLEAN]
          /\ entry'.cleared /\ entry'.closed
      BY <2>1 DEF Close, MenuInv, RuntimeTypeOK
    <2> QED
      BY <1>1, <2>1, <2>2, LifeHolds DEF dbVars
  <1>12. CASE StopWatcher
    <2>1. /\ UNCHANGED dbVars
          /\ UNCHANGED <<sequence, parts, known, live, lock, menu, skewed, startup, unloaded>>
          /\ entry' = [entry EXCEPT !.stopped = TRUE]
      BY <1>12 DEF StopWatcher, menuVars
    <2>2. /\ entry' \in [closed : BOOLEAN, cleared : BOOLEAN, stopped : BOOLEAN]
          /\ entry'.cleared = entry.cleared /\ entry'.closed = entry.closed
      BY <2>1 DEF MenuInv, RuntimeTypeOK
    <2> QED
      BY <1>1, <2>1, <2>2, LifeHolds DEF dbVars, MenuInv, RuntimeTypeOK, LockIsKept
  <1>13. CASE UNCHANGED vars
    BY <1>1, <1>13, MenuIsLeft DEF vars, dbVars
  <1> QED
    BY <1>2, <1>3, <1>4, <1>5, <1>6, <1>7, <1>8, <1>9, <1>10, <1>11, <1>12, <1>13 DEF Next

(***************************************************************************)
(* The inductive invariant of the menu: what the token cache, a question   *)
(* under way and a refresh under way know.                                 *)
(***************************************************************************)
THEOREM MenuInvariant == Spec => [](DatabaseInv /\ MenuInv)
  BY MenuInitHolds, MenuInvIsKept, PTL DEF Spec

(***************************************************************************)
(* Every answer about the database is a content it had while it was being  *)
(* asked; what the watcher remembers is what runs, but after a failure     *)
(* half-way or an edit during the start, until the next refresh; and       *)
(* nothing runs after the unload (FeatureDatabaseTokenCache.read,          *)
(* FeatureEntityRuntime).                                                  *)
(***************************************************************************)
THEOREM MenuStaysCurrent == Spec => []MenuIsCurrent
  <1>1. DatabaseInv /\ MenuInv => MenuIsCurrent
    <2> SUFFICES ASSUME DatabaseInv, MenuInv
                 PROVE  MenuIsCurrent
      OBVIOUS
    <2>1. AnswerIsCurrent
      BY DEF AnswerIsCurrent, DatabaseInv, ReadingIsKept
    <2>2. lock = "free" => reading.step \notin Applying
      BY DEF MenuInv, LockIsKept
    <2>3. RememberedRuns
      BY <2>2 DEF RememberedRuns, MenuInv, LockIsKept, BetweenRefreshes, RunsAs
    <2> QED
      BY <2>1, <2>3 DEF MenuIsCurrent
  <1> QED
    BY <1>1, MenuInvariant, PTL

(***************************************************************************)
(* No edit takes away an entity the new content still defines as it runs   *)
(* (FeatureEntityRuntime.async_refresh).                                   *)
(***************************************************************************)
THEOREM EntitiesKeepRunning == Spec => KeepsRunning
  <1>1. MenuInv /\ [Next]_vars =>
           [\A k \in Keys :
              lock = "refresh" /\ live[k] # Absent /\ live'[k] = Absent => menu.next[k] # live[k]]_vars
    <2> SUFFICES ASSUME MenuInv, Next, NEW k \in Keys,
                        lock = "refresh", live[k] # Absent, live'[k] = Absent
                 PROVE  menu.next[k] # live[k]
      OBVIOUS
    <2>1. /\ known = live /\ live \in [Keys -> Definitions \cup {Absent}]
          /\ menu.next \in [Keys -> Definitions \cup {Absent}]
      BY DEF MenuInv, LockIsKept, RuntimeTypeOK
    <2>2. ASSUME NEW j \in Keys, Remove(j) PROVE menu.next[k] # live[k]
      <3>1. live' = [live EXCEPT ![j] = Absent] /\ j \in Retiring
        BY <2>2 DEF Remove
      <3>2. k = j
        BY <2>1, <3>1
      <3> QED
        BY <2>1, <3>1, <3>2 DEF Retiring, Retires
    <2>3. CASE AddPlatform
      BY <2>1, <2>3 DEF AddPlatform, Adopted, Missing
    <2>4. CASE \/ Edit \/ Check \/ CheckStep \/ CheckFails \/ Same \/ Differs \/ Refused \/ Load \/ Reject
               \/ Apply \/ Interrupted \/ Finish \/ LoadFails \/ PlatformFails \/ BecomesReady
               \/ Recovered \/ DiscoverFails \/ Unload \/ UnloadRefused \/ StopRuntime \/ StopWatcher
      <3>1. live' = live
        BY <2>4 DEF Edit, Check, CheckStep, CheckFails, Same, Differs, Refused, Load, Reject, Apply,
                    Interrupted, Finish, LoadFails, PlatformFails, BecomesReady, Recovered, DiscoverFails,
                    Unload, UnloadRefused, StopRuntime, StopWatcher, runtimeVars, menuVars
      <3> QED
        BY <3>1
    <2>5. CASE Discover \/ Unloaded
      BY <2>5 DEF Discover, Due, Unloaded
    <2> QED
      BY <2>2, <2>3, <2>4, <2>5 DEF Next, Refresh
  <1> QED
    BY <1>1, MenuInvariant, PTL DEF Spec, KeepsRunning
===============================================================================
