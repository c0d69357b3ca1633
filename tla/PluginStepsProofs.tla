------------------------- MODULE PluginStepsProofs -------------------------
(***************************************************************************)
(* Proofs about the steps of plugins: for every plugin, however many       *)
(* commands fail and workers die.  What a step does depends on the scripts *)
(* of its plugin, so a property of the steps follows from a rule of        *)
(* PluginRules that the scripts keep; MCPluginSteps evaluates the rules on *)
(* the plugins of the repository.                                          *)
(***************************************************************************)
EXTENDS PluginRules, TLAPS

(* The script of a phase that is a call.                                   *)
LEMMA ScriptIs ==
    ASSUME plugin \in Names, phase \in Phases
    PROVE  Script = IF phase \in Resting THEN <<>> ELSE ScriptOf(plugin, phase)
BY DEF Script, ScriptOf, Phases, Installing, Cleaning, Resting

(* The calls of a plugin, as phases and as scripts.                        *)
LEMMA Called ==
    ASSUME plugin \in Names, phase \in Phases, phase \notin Resting
    PROVE  \E c \in Calls : Script = Plugins[plugin][c]
<1>1. CASE phase = "rollback"
  <2>1. Script = Plugins[plugin]["cleanup"]
    BY <1>1 DEF Script
  <2> QED BY <2>1 DEF Calls
<1>2. CASE phase # "rollback"
  <2>1. Script = Plugins[plugin][phase]
    BY <1>2 DEF Script
  <2>2. phase \in Calls
    BY <1>2 DEF Calls, Phases, Installing, Cleaning, Resting
  <2> QED BY <2>1, <2>2
<1> QED BY <1>1, <1>2

(* An instruction of a call, as ScriptsAssumption describes it.            *)
LEMMA CurrentIs ==
    ASSUME TypeOK, Running
    PROVE  /\ phase \notin Resting
           /\ at \in DOMAIN Script
           /\ Current.on \subseteq DOMAIN world
           /\ Current.turns \in [States -> States]
           /\ Current.skip \in Nat
<1>1. phase \notin Resting
  <2> SUFFICES ASSUME phase \in Resting PROVE FALSE
    OBVIOUS
  <2>1. Script = <<>>
    BY DEF Script, Resting
  <2> QED BY <2>1 DEF Running, TypeOK
<1>2. PICK c \in Calls : Script = Plugins[plugin][c]
  BY <1>1, Called DEF TypeOK
<1>3. /\ DOMAIN Plugins[plugin][c] = 1 .. Len(Plugins[plugin][c])
      /\ \A k \in DOMAIN Plugins[plugin][c] :
            /\ Plugins[plugin][c][k].on \subseteq Plugins[plugin].objects
            /\ Plugins[plugin][c][k].turns \in [States -> States]
            /\ Plugins[plugin][c][k].skip \in Nat
  BY ScriptsAssumption DEF TypeOK
<1>4. at \in DOMAIN Script
  BY <1>2, <1>3 DEF Running
<1>5. DOMAIN world = Plugins[plugin].objects
  BY DEF TypeOK
<1> QED BY <1>1, <1>2, <1>3, <1>4, <1>5 DEF Current

(* The worker always knows where to go.                                    *)
LEMMA NextPhase ==
    ASSUME phase \in Phases \ Resting
    PROVE  OnError \in Phases /\ OnSuccess \in Phases
<1>1. OnError \in Phases
  BY DEF OnError, Phases, Installing, Cleaning, Resting
<1>2. OnSuccess \in Phases
  BY DEF OnSuccess, Phases, Installing, Cleaning, Resting
<1> QED BY <1>1, <1>2

(* What a control step leaves: a phase and a place in it.                  *)
Placed == phase \in Phases /\ at \in Nat \ {0} /\ deferred \in BOOLEAN

(* A phase that is entered.                                                *)
LEMMA EnterTyped ==
    ASSUME NEW STATE next, next \in Phases, Enter(next)
    PROVE  Placed'
<1>1. phase' \in Phases
  BY DEF Enter
<1>2. at' \in Nat \ {0}
  BY DEF Enter
<1>3. deferred' \in BOOLEAN
  BY Zenon DEF Enter
<1> QED BY <1>1, <1>2, <1>3 DEF Placed

(* A place in the call, further on.                                        *)
LEMMA AdvanceTyped ==
    ASSUME Placed, NEW n \in Nat, Advance(n)
    PROVE  Placed'
BY DEF Advance, Placed

(* A call that goes on or ends after a refusal or an error.                *)
LEMMA ContinueTyped ==
    ASSUME TypeOK, Running, NEW how, Continue(how, Current)
    PROVE  Placed'
<1>1. phase \in Phases \ Resting /\ Current.skip \in Nat
  BY CurrentIs DEF TypeOK
<1>2. Placed
  BY DEF Placed, TypeOK
<1>3. CASE Enter(OnError)
  BY <1>1, <1>3, NextPhase, EnterTyped
<1>4. CASE Enter(OnSuccess)
  BY <1>1, <1>4, NextPhase, EnterTyped
<1>5. CASE Advance(1)
  BY <1>2, <1>5, AdvanceTyped
<1>6. CASE Advance(1 + Current.skip)
  <2>1. 1 + Current.skip \in Nat
    BY <1>1
  <2> QED BY <1>2, <1>6, <2>1, AdvanceTyped
<1>7. CASE Collect
  BY <1>2, <1>7 DEF Collect, Placed
<1> QED BY <1>3, <1>4, <1>5, <1>6, <1>7 DEF Continue

(* A command leaves every object in one of the states.                     *)
LEMMA TurnTyped ==
    ASSUME TypeOK, Running, NEW part, Turn(Current, part)
    PROVE  world' \in [Plugins[plugin].objects -> States]
<1>1. Current.turns \in [States -> States]
  BY CurrentIs
<1>2. world \in [Plugins[plugin].objects -> States]
  BY DEF TypeOK
<1>3. PICK t \in [States -> States] : t = Current.turns
  BY <1>1
<1>4. world' = [o \in Plugins[plugin].objects |-> IF o \in part THEN t[world[o]] ELSE world[o]]
  BY <1>2, <1>3 DEF Turn
<1> QED BY <1>2, <1>3, <1>4

(* The type invariant, part by part.                                       *)
LEMMA TypeOKStep ==
    ASSUME TypeOK, Next
    PROVE  TypeOK'
<1>0. Placed /\ world \in [Plugins[plugin].objects -> States]
  BY DEF TypeOK, Placed
<1> SUFFICES /\ plugin' = plugin /\ flaw' = flaw
             /\ Placed'
             /\ world' \in [Plugins[plugin].objects -> States]
             /\ troubles' \in 0 .. MaxTroubles
             /\ excuse' \in BOOLEAN
  BY DEF TypeOK, Placed
<1>1. CASE Succeed
  <2>1. Placed'
    BY <1>0, <1>1, AdvanceTyped DEF Succeed
  <2>2. world' \in [Plugins[plugin].objects -> States]
    BY <1>1, TurnTyped DEF Succeed
  <2> QED BY <1>1, <2>1, <2>2 DEF Succeed, Steady, TypeOK
<1>2. CASE Refuse
  <2>1. Placed'
    BY <1>2, ContinueTyped DEF Refuse
  <2> QED BY <1>2, <2>1 DEF Refuse, Steady, TypeOK
<1>3. CASE Break
  <2>1. Placed'
    BY <1>3, ContinueTyped DEF Break
  <2>2. world' \in [Plugins[plugin].objects -> States]
    <3>1. CASE UNCHANGED world
      BY <1>0, <3>1
    <3>2. CASE \E part \in SUBSET Current.on : Turn(Current, part)
      BY <1>3, <3>2, TurnTyped DEF Break
    <3> QED BY <1>3, <3>1, <3>2 DEF Break
  <2>3. troubles' \in 0 .. MaxTroubles
    BY <1>3, ScriptsAssumption DEF Break, TypeOK
  <2>4. excuse' = TRUE /\ plugin' = plugin /\ flaw' = flaw
    BY <1>3 DEF Break, Steady
  <2> QED BY <2>1, <2>2, <2>3, <2>4
<1>4. CASE Finish
  <2>1. Placed'
    <3>1. phase \in Phases \ Resting
      BY <1>4 DEF Finish, TypeOK
    <3>2. (IF deferred THEN OnError ELSE OnSuccess) \in Phases
      BY <3>1, NextPhase
    <3> QED BY <1>4, <3>2, EnterTyped DEF Finish
  <2> QED BY <1>4, <2>1 DEF Finish, Steady, TypeOK
<1>5. CASE Crash
  <2>1. Placed'
    <3>1. (IF phase \in Cleaning THEN "cleanupFailed" ELSE "failed") \in Phases
      BY DEF Phases, Resting
    <3> QED BY <1>5, <3>1, EnterTyped DEF Crash
  <2>2. troubles' \in 0 .. MaxTroubles
    BY <1>5, ScriptsAssumption DEF Crash, TypeOK
  <2> QED BY <1>5, <2>1, <2>2 DEF Crash, Steady, TypeOK
<1>6. CASE Drift
  <2>1. world' \in [Plugins[plugin].objects -> States]
    BY <1>0, <1>6 DEF Drift, States
  <2>2. troubles' \in 0 .. MaxTroubles
    BY <1>6, ScriptsAssumption DEF Drift, TypeOK
  <2> QED BY <1>0, <1>6, <2>1, <2>2 DEF Drift, TypeOK, Placed
<1>7. CASE Intrude
  <2>1. world' \in [Plugins[plugin].objects -> States]
    BY <1>0, <1>7 DEF Intrude, States, Foreign
  <2>2. troubles' \in 0 .. MaxTroubles
    BY <1>7, ScriptsAssumption DEF Intrude, TypeOK
  <2> QED BY <1>0, <1>7, <2>1, <2>2 DEF Intrude, TypeOK, Placed
<1>8. CASE RequestCleanup
  <2>1. Placed'
    <3>1. "cleanupPrecheck" \in Phases
      BY DEF Phases, Cleaning
    <3> QED BY <1>8, <3>1, EnterTyped DEF RequestCleanup
  <2> QED BY <1>8, <2>1 DEF RequestCleanup, Steady, TypeOK
<1> QED BY <1>1, <1>2, <1>3, <1>4, <1>5, <1>6, <1>7, <1>8 DEF Next

(* The initial states.                                                     *)
LEMMA InitTyped ==
    ASSUME Init
    PROVE  TypeOK
<1>1. world \in [Plugins[plugin].objects -> States]
  BY ScriptsAssumption DEF Init
<1>2. phase \in Phases /\ at \in Nat \ {0}
  BY DEF Init, Phases, Installing
<1>3. deferred \in BOOLEAN /\ excuse \in BOOLEAN
  BY Zenon DEF Init
<1>4. troubles \in 0 .. MaxTroubles
  BY ScriptsAssumption DEF Init
<1> QED BY <1>1, <1>2, <1>3, <1>4 DEF Init, TypeOK

(* A step of a plugin always stands somewhere, and its objects are in one  *)
(* of their states, for every set of plugins and any number of troubles.   *)
THEOREM StepsTyped == Spec => []TypeOK
<1>1. Init => TypeOK
  BY InitTyped
<1>2. TypeOK /\ [Next]_vars => TypeOK'
  <2> SUFFICES ASSUME TypeOK, [Next]_vars PROVE TypeOK'
    OBVIOUS
  <2>1. CASE Next
    BY <2>1, TypeOKStep
  <2>2. CASE UNCHANGED vars
    BY <2>2 DEF vars, TypeOK
  <2> QED BY <2>1, <2>2
<1> QED BY <1>1, <1>2, PTL DEF Spec

(***************************************************************************)
(* A step within a call                                                    *)
(***************************************************************************)

(* A command did some part of what it should, or nothing.                  *)
Turned(i) == UNCHANGED world \/ (Accepts(i) /\ \E part \in SUBSET i.on : Turn(i, part))

(* A call goes on after a refusal or an error, or ends well.               *)
GoesOn(how, i) ==
    \/ how = "return" /\ Enter(OnSuccess)
    \/ how = "next" /\ Advance(1)
    \/ how = "jump" /\ Advance(1 + i.skip)
    \/ how = "defer" /\ Collect

(* The ways a call can take a step: an error, its end, a command that does *)
(* what it should, one that does not.                                      *)
CallStep ==
    \/ Enter(OnError) /\ (UNCHANGED world \/ (Running /\ Turned(Current)))
    \/ ~ Running /\ ~ deferred /\ Enter(OnSuccess) /\ UNCHANGED world
    \/ Running /\ Accepts(Current) /\ Turn(Current, Current.on) /\ Advance(1)
    \/ Running /\ Turned(Current) /\ \E how \in Ways(Current) : GoesOn(how, Current)

(* Whatever the action, the call takes one of these steps.                *)
LEMMA CallStepIs ==
    ASSUME Succeed \/ Refuse \/ Break \/ Finish
    PROVE  CallStep
<1>1. CASE Succeed
  BY <1>1, Zenon DEF Succeed, CallStep
<1>2. CASE Refuse
  <2>1. Enter(OnError) \/ GoesOn(Current.refused, Current)
    BY <1>2, Zenon DEF Refuse, Continue, GoesOn
  <2>2. Current.refused \in Ways(Current)
    BY DEF Ways
  <2>3. Running /\ UNCHANGED world
    BY <1>2, Zenon DEF Refuse
  <2> QED BY <2>1, <2>2, <2>3, Zenon DEF CallStep, Turned
<1>3. CASE Break
  <2>1. Enter(OnError) \/ GoesOn(Current.error, Current)
    BY <1>3, Zenon DEF Break, Continue, GoesOn
  <2>2. Current.error \in Ways(Current)
    BY DEF Ways
  <2>3. Running /\ Turned(Current)
    BY <1>3, Zenon DEF Break, Turned
  <2> QED BY <2>1, <2>2, <2>3, Zenon DEF CallStep
<1>4. CASE Finish
  <2>1. CASE deferred
    BY <1>4, <2>1, Zenon DEF Finish, CallStep
  <2>2. CASE ~ deferred
    BY <1>4, <2>2, Zenon DEF Finish, CallStep
  <2> QED BY <2>1, <2>2
<1> QED BY <1>1, <1>2, <1>3, <1>4

(* What a command did to one object.                                       *)
LEMMA TurnedOne ==
    ASSUME TypeOK, Running, NEW o \in DOMAIN world, Turned(Current)
    PROVE  \/ world'[o] = world[o]
           \/ /\ o \in Current.on /\ world[o] \in Current.ok
              /\ world'[o] = Current.turns[world[o]]
<1>1. CASE UNCHANGED world
  BY <1>1
<1>2. CASE Accepts(Current) /\ \E part \in SUBSET Current.on : Turn(Current, part)
  <2>1. PICK part \in SUBSET Current.on : Turn(Current, part)
    BY <1>2
  <2>2. world'[o] = IF o \in part THEN Current.turns[world[o]] ELSE world[o]
    BY <2>1 DEF Turn
  <2>3. o \in Current.on => world[o] \in Current.ok
    BY <1>2 DEF Accepts
  <2> QED BY <2>1, <2>2, <2>3
<1> QED BY <1>1, <1>2 DEF Turned

(* What a command that succeeded did to one of its objects.                *)
LEMMA TurnedFully ==
    ASSUME NEW o \in DOMAIN world, o \in Current.on,
           Accepts(Current), Turn(Current, Current.on)
    PROVE  world[o] \in Current.ok /\ world'[o] = Current.turns[world[o]]
BY DEF Accepts, Turn

(* A command that succeeded did some part of what it should.               *)
LEMMA FullyIsTurned ==
    ASSUME Accepts(Current), Turn(Current, Current.on)
    PROVE  Turned(Current)
BY DEF Turned

(* A command leaves an object where the commands of its script keep it.    *)
LEMMA KeptByCommand ==
    ASSUME TypeOK, Running, NEW o \in DOMAIN world, Turned(Current),
           NEW Good, world[o] \in Good, Takes(Script, at, o, Good, Good)
    PROVE  world'[o] \in Good
BY TurnedOne DEF Takes, Current
(***************************************************************************)
(* A call that establishes something                                       *)
(***************************************************************************)

(* How a call stands to an object it brings to Good: before its decisive   *)
(* command the object is in From, after it in Good, unless an error waits  *)
(* for the end of the call.                                                *)
Und(s, k, a, d, x, From, Good) ==
    IF a <= k THEN x \in From ELSE x \in Good \/ (d /\ ~ Returns(s))

Under(s, o, From, Good) ==
    \E k \in DOMAIN s : /\ EstablishesAt(s, k, o, From, Good)
                        /\ Und(s, k, at, deferred, world[o], From, Good)

(* The commands of a script that establishes something, one by one.        *)
LEMMA BeforeDecisive ==
    ASSUME NEW s, NEW k, NEW j, NEW o, NEW From, NEW Good, EstablishesAt(s, k, o, From, Good),
           k \in Nat, j \in Nat \ {0}, j < k
    PROVE  /\ Takes(s, j, o, From, From)
           /\ "return" \notin Ways(s[j])
           /\ "jump" \in Ways(s[j]) => j + s[j].skip < k
<1>1. j \in 1 .. (k - 1)
  OBVIOUS
<1> QED BY <1>1 DEF EstablishesAt, Keeps, Unskipped

(* The commands after the decisive one.                                    *)
LEMMA AfterDecisive ==
    ASSUME NEW s, NEW k, NEW j, NEW o, NEW From, NEW Good, EstablishesAt(s, k, o, From, Good),
           k \in Nat, j \in Nat, k < j, Len(s) \in Nat, j <= Len(s)
    PROVE  Takes(s, j, o, Good, Good)
<1>1. j \in (k + 1) .. Len(s)
  OBVIOUS
<1> QED BY <1>1 DEF EstablishesAt, Keeps

(* The decisive command either does what it should or makes the call fail. *)
LEMMA AtDecisive ==
    ASSUME NEW s, NEW k, NEW how, Firm(s, k), how \in Ways(s[k]),
           how \in {"return", "next", "jump", "defer"}
    PROVE  how = "defer" /\ ~ Returns(s)
BY DEF Firm, Ways

(* A call that can end early says so.                                      *)
LEMMA ReturnsIs ==
    ASSUME NEW s, NEW j \in DOMAIN s, "return" \in Ways(s[j])
    PROVE  Returns(s)
BY DEF Returns

(* A step of a call that establishes something: the call fails, or it ends *)
(* well with the object in Good, or it goes on and stands as before.       *)
LEMMA UnderInCall ==
    ASSUME TypeOK, CallStep, NEW o \in DOMAIN world, NEW From, NEW Good,
           phase \in Phases \ Resting, Under(Script, o, From, Good)
    PROVE  \/ Enter(OnError)
           \/ Enter(OnSuccess) /\ world'[o] \in Good
           \/ /\ phase' = phase
              /\ \E k \in DOMAIN Script :
                    /\ EstablishesAt(Script, k, o, From, Good)
                    /\ Und(Script, k, at', deferred', world'[o], From, Good)
<1>1. PICK c \in Calls : Script = Plugins[plugin][c]
  BY Called DEF TypeOK
<1>2. Len(Script) \in Nat /\ DOMAIN Script = 1 .. Len(Script)
  BY <1>1, ScriptsAssumption DEF TypeOK
<1>3. PICK k \in DOMAIN Script : /\ EstablishesAt(Script, k, o, From, Good)
                                 /\ Und(Script, k, at, deferred, world[o], From, Good)
  BY DEF Under
<1>4. k \in Nat \ {0} /\ k <= Len(Script) /\ at \in Nat \ {0}
  BY <1>2, <1>3 DEF TypeOK
<1>5. Firm(Script, k) /\ o \in Script[k].on /\ Takes(Script, k, o, From, Good)
  BY <1>3 DEF EstablishesAt
<1> SUFFICES ASSUME ~ Enter(OnError)
             PROVE  \/ Enter(OnSuccess) /\ world'[o] \in Good
                    \/ /\ phase' = phase
                       /\ Und(Script, k, at', deferred', world'[o], From, Good)
  BY <1>3
<1>6. CASE ~ Running /\ ~ deferred /\ Enter(OnSuccess) /\ UNCHANGED world
  <2>1. ~ (at <= k)
    BY <1>4, <1>6 DEF Running
  <2> QED BY <1>3, <1>6, <2>1 DEF Und
<1>7. CASE Running /\ Accepts(Current) /\ Turn(Current, Current.on) /\ Advance(1)
  <2>1. Turned(Current) /\ at <= Len(Script) /\ at \in DOMAIN Script
    BY <1>2, <1>7, FullyIsTurned DEF Running
  <2>2. phase' = phase /\ at' = at + 1 /\ deferred' = deferred
    BY <1>7 DEF Advance
  <2>3. CASE at < k
    <3>1. world[o] \in From /\ Takes(Script, at, o, From, From)
      BY <1>3, <1>4, <2>3, BeforeDecisive DEF Und
    <3>2. world'[o] \in From
      BY <1>7, <2>1, <3>1, KeptByCommand
    <3>3. at' <= k
      BY <1>4, <2>2, <2>3
    <3> QED BY <2>2, <3>2, <3>3 DEF Und
  <2>4. CASE at = k
    <3>1. world[o] \in From /\ ~ (at' <= k)
      BY <1>3, <1>4, <2>2, <2>4 DEF Und
    <3>2. o \in Current.on /\ Current = Script[k]
      BY <1>5, <2>4 DEF Current
    <3>3. world[o] \in Current.ok /\ world'[o] = Current.turns[world[o]]
      BY <1>7, <3>2, TurnedFully
    <3>4. world'[o] \in Good
      BY <1>5, <3>1, <3>2, <3>3 DEF Takes
    <3> QED BY <2>2, <3>1, <3>4 DEF Und
  <2>5. CASE at > k
    <3>1. world[o] \in Good \/ (deferred /\ ~ Returns(Script))
      BY <1>3, <1>4, <2>5 DEF Und
    <3>2. Takes(Script, at, o, Good, Good)
      BY <1>2, <1>3, <1>4, <2>1, <2>5, AfterDecisive
    <3>3. world[o] \in Good => world'[o] \in Good
      BY <1>7, <2>1, <3>2, KeptByCommand
    <3>4. ~ (at' <= k)
      BY <1>4, <2>2, <2>5
    <3> QED BY <2>2, <3>1, <3>3, <3>4 DEF Und
  <2> QED BY <1>4, <2>3, <2>4, <2>5
<1>8. CASE Running /\ Turned(Current) /\ \E how \in Ways(Current) : GoesOn(how, Current)
  <2>1. PICK how \in Ways(Current) : GoesOn(how, Current)
    BY <1>8
  <2>2. at <= Len(Script) /\ at \in DOMAIN Script /\ Current = Script[at] /\ Current.skip \in Nat
    BY <1>2, <1>8, CurrentIs DEF Running, Current
  <2>3. how \in {"return", "next", "jump", "defer"}
    BY <2>1 DEF GoesOn
  <2>4. CASE at < k
    <3>1. world[o] \in From /\ Takes(Script, at, o, From, From)
      BY <1>3, <1>4, <2>4, BeforeDecisive DEF Und
    <3>2. world'[o] \in From
      BY <1>8, <3>1, KeptByCommand
    <3>3. how # "return" /\ (how = "jump" => at + Current.skip < k)
      BY <1>3, <1>4, <2>1, <2>2, <2>4, BeforeDecisive
    <3>4. phase' = phase /\ at' <= k
      <4>1. CASE how = "next" /\ Advance(1)
        BY <1>4, <2>4, <4>1 DEF Advance
      <4>2. CASE how = "jump" /\ Advance(1 + Current.skip)
        <5>1. phase' = phase /\ at' = at + (1 + Current.skip) /\ at + Current.skip < k
          BY <3>3, <4>2 DEF Advance
        <5> QED BY <1>4, <2>2, <5>1
      <4>3. CASE Collect
        BY <1>4, <2>4, <4>3 DEF Collect
      <4> QED BY <2>1, <3>3, <4>1, <4>2, <4>3 DEF GoesOn
    <3> QED BY <3>2, <3>4 DEF Und
  <2>5. CASE at = k
    <3>1. how = "defer" /\ ~ Returns(Script)
      BY <1>5, <2>1, <2>2, <2>3, <2>5, AtDecisive
    <3>2. phase' = phase /\ at' = at + 1 /\ deferred'
      BY <2>1, <3>1 DEF GoesOn, Collect
    <3>3. ~ (at' <= k)
      BY <1>4, <2>5, <3>2
    <3> QED BY <3>1, <3>2, <3>3 DEF Und
  <2>6. CASE at > k
    <3>1. world[o] \in Good \/ (deferred /\ ~ Returns(Script))
      BY <1>3, <1>4, <2>6 DEF Und
    <3>2. Takes(Script, at, o, Good, Good)
      BY <1>2, <1>3, <1>4, <2>2, <2>6, AfterDecisive
    <3>3. world[o] \in Good => world'[o] \in Good
      BY <1>8, <3>2, KeptByCommand
    <3>4. CASE how = "return"
      <4>1. Returns(Script)
        BY <2>1, <2>2, <3>4, ReturnsIs
      <4> QED BY <2>1, <3>1, <3>3, <3>4, <4>1 DEF GoesOn
    <3>5. CASE how # "return"
      <4>1. /\ phase' = phase
            /\ at' > k
            /\ deferred => deferred'
        <5>1. CASE Advance(1)
          BY <1>4, <2>6, <5>1 DEF Advance
        <5>2. CASE Advance(1 + Current.skip)
          <6>1. phase' = phase /\ at' = at + (1 + Current.skip) /\ deferred' = deferred
            BY <5>2 DEF Advance
          <6> QED BY <1>4, <2>2, <2>6, <6>1
        <5>3. CASE Collect
          BY <1>4, <2>6, <5>3 DEF Collect
        <5> QED BY <2>1, <3>5, <5>1, <5>2, <5>3 DEF GoesOn
      <4>2. ~ (at' <= k)
        <5>1. at' \in Nat
          <6>1. CASE Advance(1)
            BY <1>4, <6>1 DEF Advance
          <6>2. CASE Advance(1 + Current.skip)
            BY <1>4, <2>2, <6>2 DEF Advance
          <6>3. CASE Collect
            BY <1>4, <6>3 DEF Collect
          <6> QED BY <2>1, <3>5, <6>1, <6>2, <6>3 DEF GoesOn
        <5> QED BY <1>4, <4>1, <5>1
      <4> QED BY <3>1, <3>3, <4>1, <4>2 DEF Und
    <3> QED BY <3>4, <3>5
  <2> QED BY <1>4, <2>4, <2>5, <2>6
<1> QED BY <1>6, <1>7, <1>8 DEF CallStep
(***************************************************************************)
(* Steps of the whole                                                      *)
(***************************************************************************)

(* Every step is one of a call, the death of a worker, or comes from       *)
(* outside of the calls.                                                   *)
LEMMA StepIs ==
    ASSUME TypeOK, Next
    PROVE  /\ plugin' = plugin /\ flaw' = flaw
           /\ \/ phase \in Phases \ Resting /\ CallStep
              \/ /\ phase \in Phases \ Resting /\ phase # "validate"
                 /\ phase' \in {"failed", "cleanupFailed"}
                 /\ phase' = IF phase \in Cleaning THEN "cleanupFailed" ELSE "failed"
                 /\ UNCHANGED world
              \/ Drift
              \/ Intrude
              \/ RequestCleanup
<1>1. CASE Succeed \/ Refuse \/ Break \/ Finish
  <2>1. CallStep
    BY <1>1, CallStepIs
  <2>2. phase \in Phases \ Resting
    BY <1>1, CurrentIs DEF Succeed, Refuse, Break, Finish, TypeOK
  <2>3. plugin' = plugin /\ flaw' = flaw
    BY <1>1 DEF Succeed, Refuse, Break, Finish, Steady
  <2> QED BY <2>1, <2>2, <2>3
<1>2. CASE Crash
  <2>1. /\ phase \in Phases \ Resting /\ phase # "validate"
        /\ UNCHANGED world /\ plugin' = plugin /\ flaw' = flaw
    BY <1>2 DEF Crash, Steady, TypeOK
  <2>2. phase' = IF phase \in Cleaning THEN "cleanupFailed" ELSE "failed"
    BY <1>2 DEF Crash, Enter
  <2> QED BY <2>1, <2>2
<1>3. CASE Drift
  BY <1>3 DEF Drift
<1>4. CASE Intrude
  BY <1>4 DEF Intrude
<1>5. CASE RequestCleanup
  BY <1>5 DEF RequestCleanup, Steady
<1> QED BY <1>1, <1>2, <1>3, <1>4, <1>5 DEF Next

(* A step of a call enters the next phase or goes on in its own.           *)
LEMMA CallStepPhase ==
    ASSUME CallStep
    PROVE  Enter(OnError) \/ Enter(OnSuccess) \/ phase' = phase
BY DEF CallStep, GoesOn, Advance, Collect

(* What an event from outside of the calls may do to an object.            *)
LEMMA DriftOne ==
    ASSUME Drift, NEW o \in DOMAIN world
    PROVE  /\ phase' = phase /\ at' = at /\ at = 1 /\ deferred' = deferred
           /\ world'[o] = world[o] \/ (o \in Plugins[plugin].drifts /\ world'[o] = "absent")
BY DEF Drift

(* Somebody else only takes a name while the step rests.                   *)
LEMMA IntrudeOne ==
    ASSUME Intrude, NEW o \in DOMAIN world
    PROVE  /\ phase' = phase /\ phase \in Resting \ {"rejected", "succeeded"}
           /\ \/ world'[o] = world[o]
              \/ o \in Plugins[plugin].shared /\ world'[o] = "other"
              \/ o \in Plugins[plugin].unmarked /\ world'[o] = "unmarked"
<1>1. PICK d \in Plugins[plugin].objects, x \in Foreign :
          /\ d \in IF x = "other" THEN Plugins[plugin].shared ELSE Plugins[plugin].unmarked
          /\ world' = [world EXCEPT ![d] = x]
  BY DEF Intrude
<1>2. x = "other" \/ x = "unmarked"
  BY DEF Foreign
<1> QED BY <1>1, <1>2 DEF Intrude

(* The phases a call can lead to.                                          *)
LEMMA Leads ==
    ASSUME phase \in Phases \ Resting
    PROVE  /\ OnError \in {"rejected", "failed", "rollback", "undo", "cleanupFailed"}
           /\ OnError = "rollback" => phase = "execute"
           /\ OnError = "undo" => phase = "verify"
           /\ OnError = "rejected" <=> phase = "validate"
           /\ OnError = "cleanupFailed" => phase \in Cleaning
           /\ OnSuccess \in {"precheck", "execute", "verify", "succeeded", "failed",
                             "cleanup", "cleanupVerify", "cleaned"}
           /\ OnSuccess = "precheck" => phase = "validate"
           /\ OnSuccess = "execute" => phase = "precheck"
           /\ OnSuccess = "verify" => phase = "execute"
           /\ OnSuccess = "succeeded" => phase = "verify"
           /\ OnSuccess = "cleanup" => phase = "cleanupPrecheck"
           /\ OnSuccess = "cleanupVerify" => phase = "cleanup"
           /\ OnSuccess = "cleaned" => phase = "cleanupVerify"
<1>1. CASE phase \in Installing
  BY <1>1 DEF OnError, OnSuccess, Installing, Cleaning
<1>2. CASE phase \in Cleaning
  BY <1>2 DEF OnError, OnSuccess, Cleaning
<1> QED BY <1>1, <1>2 DEF Phases

(* A call never leads to itself.                                           *)
LEMMA PhaseChanges ==
    ASSUME phase \in Phases \ Resting
    PROVE  OnError # phase /\ OnSuccess # phase
BY Leads DEF Cleaning, Resting

(* An object that all the commands of the call keep in Good stays there.   *)
LEMMA KeptByStep ==
    ASSUME TypeOK, Next, NEW o \in DOMAIN world, NEW Good, world[o] \in Good,
           phase \notin Resting => Keeps(Script, 1, Len(Script), o, Good),
           o \in Plugins[plugin].drifts => "absent" \in Good,
           phase \in Resting /\ o \in Plugins[plugin].shared => "other" \in Good,
           phase \in Resting /\ o \in Plugins[plugin].unmarked => "unmarked" \in Good
    PROVE  world'[o] \in Good
<1>1. CASE phase \in Phases \ Resting /\ CallStep
  <2>1. CASE UNCHANGED world
    BY <2>1
  <2>2. CASE Running /\ Turned(Current)
    <3>1. Takes(Script, at, o, Good, Good)
      BY <1>1, <2>2 DEF Keeps, Running
    <3> QED BY <2>2, <3>1, KeptByCommand
  <2>3. CASE Running /\ Accepts(Current) /\ Turn(Current, Current.on)
    BY <2>2, <2>3, FullyIsTurned
  <2> QED BY <1>1, <2>1, <2>2, <2>3 DEF CallStep
<1>2. CASE Drift
  BY <1>2, DriftOne
<1>3. CASE Intrude
  BY <1>3, IntrudeOne
<1>4. CASE RequestCleanup
  BY <1>4 DEF RequestCleanup
<1> QED BY <1>1, <1>2, <1>3, <1>4, StepIs

(* The calls that establish something.                                     *)
Working == {"precheck", "execute", "verify", "cleanupPrecheck", "cleanup", "cleanupVerify"}

(* The script of such a call, which never leads to itself.                 *)
LEMMA WorkingScript ==
    ASSUME phase \in Working
    PROVE  /\ phase \in Phases \ Resting /\ phase \in Calls
           /\ Script = Plugins[plugin][phase]
           /\ OnError # phase /\ OnSuccess # phase
<1>1. phase \in Phases \ Resting /\ phase \in Calls
  BY DEF Working, Phases, Installing, Cleaning, Resting, Calls
<1>2. Script = Plugins[plugin][phase]
  BY <1>1 DEF Working, Script
<1>3. OnError # phase /\ OnSuccess # phase
  BY <1>1, Leads DEF Working, Cleaning
<1> QED BY <1>1, <1>2, <1>3

(* A call that establishes something stands well in every state of its     *)
(* own, and when it ends well the object is in Good.                       *)
LEMMA UnderStep ==
    ASSUME TypeOK, Next, NEW o \in DOMAIN world, NEW From, NEW Good, NEW c \in Working,
           Establishes(Plugins[plugin][c], o, From, Good),
           phase = c => Under(Plugins[plugin][c], o, From, Good),
           o \in Plugins[plugin].drifts => "absent" \in From,
           phase # c /\ phase' = c => world'[o] \in From
    PROVE  /\ phase' = c => Under(Plugins[plugin][c], o, From, Good)'
           /\ phase = c /\ phase' # c =>
                 \/ phase' \in {OnError, "failed", "cleanupFailed"}
                 \/ phase' = OnSuccess /\ world'[o] \in Good
<1>0. plugin' = plugin /\ plugin \in Names /\ c \in Calls
  BY StepIs DEF TypeOK, Working, Calls
<1>1. /\ Len(Plugins[plugin][c]) \in Nat
      /\ DOMAIN Plugins[plugin][c] = 1 .. Len(Plugins[plugin][c])
  BY <1>0, ScriptsAssumption
<1>2. CASE phase # c
  <2> SUFFICES ASSUME phase' = c PROVE Under(Plugins[plugin][c], o, From, Good)'
    BY <1>2
  <2>1. at' = 1
    <3>1. CASE CallStep
      BY <1>2, <3>1, CallStepPhase DEF Enter
    <3>2. CASE phase' \in {"failed", "cleanupFailed"}
      BY <3>2 DEF Working
    <3>3. CASE Drift \/ Intrude
      BY <1>2, <3>3 DEF Drift, Intrude
    <3>4. CASE RequestCleanup
      BY <3>4 DEF RequestCleanup, Enter
    <3> QED BY <3>1, <3>2, <3>3, <3>4, StepIs
  <2>2. PICK k \in DOMAIN Plugins[plugin][c] : EstablishesAt(Plugins[plugin][c], k, o, From, Good)
    BY DEF Establishes
  <2>3. at' <= k
    BY <1>1, <2>1, <2>2
  <2>4. world'[o] \in From
    BY <1>2
  <2> QED BY <1>0, <2>2, <2>3, <2>4 DEF Under, Und
<1>3. CASE phase = c
  <2>0. /\ phase \in Phases \ Resting
        /\ Script = Plugins[plugin][c]
        /\ OnError # c /\ OnSuccess # c
    BY <1>3, WorkingScript
  <2>1. CASE CallStep
    <3>1. \/ Enter(OnError)
          \/ Enter(OnSuccess) /\ world'[o] \in Good
          \/ /\ phase' = phase
             /\ \E k \in DOMAIN Script :
                   /\ EstablishesAt(Script, k, o, From, Good)
                   /\ Und(Script, k, at', deferred', world'[o], From, Good)
      BY <1>3, <2>0, <2>1, UnderInCall
    <3>2. CASE Enter(OnError)
      BY <2>0, <3>2 DEF Enter
    <3>3. CASE Enter(OnSuccess) /\ world'[o] \in Good
      BY <2>0, <3>3 DEF Enter
    <3>4. CASE /\ phase' = phase
               /\ \E k \in DOMAIN Script :
                     /\ EstablishesAt(Script, k, o, From, Good)
                     /\ Und(Script, k, at', deferred', world'[o], From, Good)
      <4>1. Under(Plugins[plugin][c], o, From, Good)'
        BY <1>0, <2>0, <3>4 DEF Under
      <4> QED BY <1>3, <3>4, <4>1
    <3> QED BY <3>1, <3>2, <3>3, <3>4
  <2>2. CASE phase' \in {"failed", "cleanupFailed"}
    BY <2>2 DEF Working
  <2>3. CASE Drift
    <3>1. PICK k \in DOMAIN Plugins[plugin][c] :
              /\ EstablishesAt(Plugins[plugin][c], k, o, From, Good)
              /\ Und(Plugins[plugin][c], k, at, deferred, world[o], From, Good)
      BY <1>3 DEF Under
    <3>2. phase' = phase /\ at' = at /\ at = 1 /\ at <= k
      BY <1>1, <2>3, <3>1, DriftOne
    <3>3. world[o] \in From
      BY <3>1, <3>2 DEF Und
    <3>4. world'[o] \in From
      BY <2>3, <3>3, DriftOne
    <3>5. Under(Plugins[plugin][c], o, From, Good)'
      BY <1>0, <3>1, <3>2, <3>4 DEF Under, Und
    <3> QED BY <1>3, <3>2, <3>5
  <2>4. CASE Intrude \/ RequestCleanup
    BY <2>0, <2>4 DEF Intrude, RequestCleanup, Resting
  <2> QED BY <2>1, <2>2, <2>3, <2>4, StepIs
<1> QED BY <1>2, <1>3
(***************************************************************************)
(* Two calls, one after the other                                          *)
(***************************************************************************)

(* The first of two calls is entered from a precheck, the second when the  *)
(* first ends well.                                                        *)
Pair(c, d) == (c = "execute" /\ d = "verify") \/ (c = "cleanup" /\ d = "cleanupVerify")

(* How the second of two calls is reached.                                 *)
LEMMA PairLeads ==
    ASSUME TypeOK, Next, NEW c, NEW d, Pair(c, d)
    PROVE  /\ c \in Working /\ d \in Working /\ c # d
           /\ phase # d /\ phase' = d => phase = c /\ phase' = OnSuccess
           /\ phase = c /\ phase' = d => phase' \notin {OnError, "failed", "cleanupFailed"}
<1>1. c \in Working /\ d \in Working /\ c # d
  BY DEF Pair, Working
<1>2. phase # d /\ phase' = d => phase = c /\ phase' = OnSuccess
  <2> SUFFICES ASSUME phase # d, phase' = d PROVE phase = c /\ phase' = OnSuccess
    OBVIOUS
  <2>1. CASE phase \in Phases \ Resting /\ CallStep
    <3>1. phase' = OnError \/ phase' = OnSuccess
      BY <2>1, CallStepPhase DEF Enter
    <3> QED BY <2>1, <3>1, Leads DEF Pair
  <2>2. CASE phase' \in {"failed", "cleanupFailed"}
    BY <2>2 DEF Pair
  <2>3. CASE Drift \/ Intrude
    BY <2>3 DEF Drift, Intrude
  <2>4. CASE RequestCleanup
    BY <2>4 DEF RequestCleanup, Enter, Pair
  <2> QED BY <2>1, <2>2, <2>3, <2>4, StepIs
<1>3. phase = c => OnError # d
  <2> SUFFICES ASSUME phase = c PROVE OnError # d
    OBVIOUS
  <2>1. phase \in Phases \ Resting
    BY <1>1, WorkingScript
  <2> QED BY <2>1, Leads DEF Pair
<1>4. d \notin {"failed", "cleanupFailed"}
  BY DEF Pair
<1> QED BY <1>1, <1>2, <1>3, <1>4

(* The state of two calls that ensure something, in the three ways that    *)
(* Ensures names.                                                          *)
Looks(d, o, From, Good) ==
    /\ Establishes(Plugins[plugin][d], o, From, Good)
    /\ phase = d => Under(Plugins[plugin][d], o, From, Good)

Leaves(d, o, Good) ==
    /\ o \in Plugins[plugin].drifts => "absent" \in Good
    /\ Keeps(Plugins[plugin][d], 1, Len(Plugins[plugin][d]), o, Good)
    /\ phase = d => world[o] \in Good

Sure(c, d, o, From, Good) ==
    \/ Looks(d, o, From, Good)
    \/ /\ Looks(c, o, From, Good)
       /\ Leaves(d, o, Good) \/ Looks(d, o, Good \cup {"absent"}, Good)

(* While neither call runs the rule of the plugin is all that matters.     *)
LEMMA SureAtFirst ==
    ASSUME NEW c, NEW d, phase # c, phase # d, NEW o, NEW From, NEW Good,
           Ensures(plugin, c, d, o, From, Good)
    PROVE  Sure(c, d, o, From, Good)
BY DEF Sure, Looks, Leaves, Ensures

(* A call that looks, in a step.                                           *)
LEMMA LooksStep ==
    ASSUME TypeOK, Next, NEW o \in DOMAIN world, NEW From, NEW Good, NEW c \in Working,
           Looks(c, o, From, Good),
           o \in Plugins[plugin].drifts => "absent" \in From,
           phase # c /\ phase' = c => world'[o] \in From
    PROVE  /\ Looks(c, o, From, Good)'
           /\ phase = c /\ phase' # c =>
                 \/ phase' \in {OnError, "failed", "cleanupFailed"}
                 \/ phase' = OnSuccess /\ world'[o] \in Good
<1>1. Establishes(Plugins[plugin][c], o, From, Good)
  BY DEF Looks
<1>2. phase = c => Under(Plugins[plugin][c], o, From, Good)
  BY DEF Looks
<1>3. plugin' = plugin
  BY StepIs
<1>4. /\ phase' = c => Under(Plugins[plugin][c], o, From, Good)'
      /\ phase = c /\ phase' # c =>
            \/ phase' \in {OnError, "failed", "cleanupFailed"}
            \/ phase' = OnSuccess /\ world'[o] \in Good
  BY <1>1, <1>2, UnderStep
<1>5. Establishes(Plugins[plugin][c], o, From, Good)'
  BY <1>1, <1>3
<1> QED BY <1>4, <1>5 DEF Looks

(* Two calls that ensure something do so: whatever happens, and when the   *)
(* second ends well the object is in Good.                                 *)
LEMMA SureStep ==
    ASSUME TypeOK, Next, NEW c, NEW d, Pair(c, d), NEW o \in DOMAIN world,
           NEW From, NEW Good, Sure(c, d, o, From, Good),
           o \in Plugins[plugin].drifts => "absent" \in From,
           world'[o] \in From
    PROVE  /\ Sure(c, d, o, From, Good)'
           /\ phase = d /\ phase' # d =>
                 \/ phase' \in {OnError, "failed", "cleanupFailed"}
                 \/ phase' = OnSuccess /\ world'[o] \in Good
<1>1. /\ c \in Working /\ d \in Working /\ c # d
      /\ phase # d /\ phase' = d => phase = c /\ phase' = OnSuccess
      /\ phase = c /\ phase' = d => phase' \notin {OnError, "failed", "cleanupFailed"}
  BY PairLeads
<1>2. CASE Looks(d, o, From, Good)
  <2>1. /\ Looks(d, o, From, Good)'
        /\ phase = d /\ phase' # d =>
              \/ phase' \in {OnError, "failed", "cleanupFailed"}
              \/ phase' = OnSuccess /\ world'[o] \in Good
    BY <1>1, <1>2, LooksStep
  <2> QED BY <2>1 DEF Sure
<1>3. CASE Looks(c, o, From, Good)
  <2>1. /\ Looks(c, o, From, Good)'
        /\ phase = c /\ phase' # c =>
              \/ phase' \in {OnError, "failed", "cleanupFailed"}
              \/ phase' = OnSuccess /\ world'[o] \in Good
    BY <1>1, <1>3, LooksStep
  <2>2. phase # d /\ phase' = d => world'[o] \in Good
    BY <1>1, <2>1
  <2>3. CASE Leaves(d, o, Good)
    <3>1. phase = d => world'[o] \in Good
      <4> SUFFICES ASSUME phase = d PROVE world'[o] \in Good
        OBVIOUS
      <4>1. phase \notin Resting /\ Script = Plugins[plugin][d]
        BY <1>1, WorkingScript
      <4> QED BY <2>3, <4>1, KeptByStep DEF Leaves
    <3>2. Leaves(d, o, Good)'
      BY <2>2, <2>3, <3>1, StepIs DEF Leaves
    <3>3. phase = d /\ phase' # d => phase' \in {OnError, OnSuccess, "failed", "cleanupFailed"}
      <4> SUFFICES ASSUME phase = d, phase' # d
                   PROVE  phase' \in {OnError, OnSuccess, "failed", "cleanupFailed"}
        OBVIOUS
      <4>1. phase \notin Resting
        BY <1>1, WorkingScript
      <4>2. CASE CallStep
        BY <4>2, CallStepPhase DEF Enter
      <4>3. CASE Drift \/ Intrude
        BY <4>3 DEF Drift, Intrude
      <4>4. CASE RequestCleanup
        BY <4>1, <4>4 DEF RequestCleanup, Resting
      <4> QED BY <4>2, <4>3, <4>4, StepIs
    <3> QED BY <2>1, <3>1, <3>2, <3>3 DEF Sure
  <2>4. CASE Looks(d, o, Good \cup {"absent"}, Good)
    <3>1. phase # d /\ phase' = d => world'[o] \in Good \cup {"absent"}
      BY <2>2
    <3>2. o \in Plugins[plugin].drifts => "absent" \in Good \cup {"absent"}
      OBVIOUS
    <3>3. /\ Looks(d, o, Good \cup {"absent"}, Good)'
          /\ phase = d /\ phase' # d =>
                \/ phase' \in {OnError, "failed", "cleanupFailed"}
                \/ phase' = OnSuccess /\ world'[o] \in Good
      BY <1>1, <2>4, <3>1, <3>2, LooksStep
    <3> QED BY <2>1, <3>3 DEF Sure
  <2>5. CASE Looks(d, o, From, Good)
    BY <1>2, <2>5
  <2> QED BY <2>3, <2>4, <2>5 DEF Sure
<1> QED BY <1>2, <1>3 DEF Sure
(***************************************************************************)
(* A verified step is in place                                             *)
(***************************************************************************)

(* The objects a step promises are in the hands of Execute and Verify.     *)
PromiseInv ==
    /\ TypeOK
    /\ \A o \in Plugins[plugin].provides : Sure("execute", "verify", o, States, InPlace)

(* Execute and Verify keep the promise in every step.                      *)
LEMMA PromiseStep ==
    ASSUME PromiseInv, Next
    PROVE  /\ PromiseInv'
           /\ phase' = "succeeded" /\ phase # "succeeded" =>
                 \A o \in Plugins[plugin].provides : world'[o] \in InPlace
<1>1. TypeOK /\ TypeOK' /\ plugin' = plugin
  BY TypeOKStep, StepIs DEF PromiseInv
<1>2. DOMAIN world = Plugins[plugin].objects /\ Plugins[plugin].provides \subseteq DOMAIN world
  <2>1. plugin \in Names /\ world \in [Plugins[plugin].objects -> States]
    BY <1>1 DEF TypeOK
  <2>2. Plugins[plugin]["provides"] \subseteq Plugins[plugin].objects
    BY <2>1, ScriptsAssumption
  <2> QED BY <2>1, <2>2
<1>3. ASSUME NEW o \in Plugins[plugin].provides
      PROVE  /\ Sure("execute", "verify", o, States, InPlace)'
             /\ phase' = "succeeded" /\ phase # "succeeded" => world'[o] \in InPlace
  <2>1. Pair("execute", "verify")
    BY DEF Pair
  <2>2. world'[o] \in States
    BY <1>1, <1>2 DEF TypeOK
  <2>3. Sure("execute", "verify", o, States, InPlace) /\ o \in DOMAIN world
    BY <1>2 DEF PromiseInv
  <2>4. "absent" \in States
    BY DEF States
  <2>5. /\ Sure("execute", "verify", o, States, InPlace)'
        /\ phase = "verify" /\ phase' # "verify" =>
              \/ phase' \in {OnError, "failed", "cleanupFailed"}
              \/ phase' = OnSuccess /\ world'[o] \in InPlace
    BY <1>1, <2>1, <2>2, <2>3, <2>4, SureStep
  <2>6. ASSUME phase' = "succeeded", phase # "succeeded"
        PROVE  phase = "verify" /\ OnError # "succeeded"
    <3>1. CASE phase \in Phases \ Resting /\ CallStep
      <4>1. phase' = OnError \/ phase' = OnSuccess
        BY <2>6, <3>1, CallStepPhase DEF Enter
      <4> QED BY <2>6, <3>1, <4>1, Leads
    <3>2. CASE Drift \/ Intrude
      BY <2>6, <3>2 DEF Drift, Intrude
    <3>3. CASE RequestCleanup
      BY <2>6, <3>3 DEF RequestCleanup, Enter
    <3> QED BY <1>1, <2>6, <3>1, <3>2, <3>3, StepIs
  <2> QED BY <2>5, <2>6
<1> QED BY <1>1, <1>3 DEF PromiseInv

(* When a step is reported as succeeded everything it promises is in place *)
(* (Worker.process, after Verify): for every plugin whose Execute and      *)
(* Verify keep the rule PutsInPlace, and any number of failed commands,    *)
(* dead workers and objects that go away by themselves.                    *)
THEOREM VerifiedAlwaysInPlace ==
    ASSUME \A p \in Names : PutsInPlace(p)
    PROVE  Spec => VerifiedIsInPlace
<1>1. Init => PromiseInv
  <2> SUFFICES ASSUME Init PROVE PromiseInv
    OBVIOUS
  <2>1. TypeOK
    BY InitTyped
  <2>2. phase # "execute" /\ phase # "verify" /\ plugin \in Names
    BY DEF Init
  <2>3. ASSUME NEW o \in Plugins[plugin].provides
        PROVE  Sure("execute", "verify", o, States, InPlace)
    <3>1. Ensures(plugin, "execute", "verify", o, States, InPlace)
      BY <2>2 DEF PutsInPlace
    <3> QED BY <2>2, <3>1, SureAtFirst
  <2> QED BY <2>1, <2>3 DEF PromiseInv
<1>2. PromiseInv /\ [Next]_vars => PromiseInv'
  <2> SUFFICES ASSUME PromiseInv, [Next]_vars PROVE PromiseInv'
    OBVIOUS
  <2>1. CASE Next
    BY <2>1, PromiseStep
  <2>2. CASE UNCHANGED vars
    BY <2>2 DEF vars, PromiseInv, TypeOK, Sure, Looks, Leaves, Under
  <2> QED BY <2>1, <2>2
<1>3. PromiseInv /\ [Next]_vars =>
          [phase' = "succeeded" /\ phase # "succeeded" =>
              \A o \in Plugins[plugin].provides : world'[o] \in {"own", "changed"}]_vars
  BY PromiseStep DEF InPlace
<1> QED BY <1>1, <1>2, <1>3, PTL DEF Spec, VerifiedIsInPlace

(***************************************************************************)
(* A verified cleanup is clean                                             *)
(***************************************************************************)

(* An object is confined to some states, and is clean after a verified     *)
(* cleanup.                                                                *)
Tidied(o, From) ==
    /\ Confined(plugin, o, From) /\ world[o] \in From
    /\ \/ From \subseteq Clean
       \/ /\ Sure("cleanup", "cleanupVerify", o, From, Clean)
          /\ phase = "cleaned" => world[o] \in Clean

TidyInv ==
    /\ TypeOK
    /\ phase \in Cleaning \cup {"cleaned", "cleanupFailed"} => Plugins[plugin].cleanable
    /\ CleansUp(plugin) /\ Plugins[plugin].cleanable =>
          \A o \in Plugins[plugin].objects \ Plugins[plugin].keeps :
              \E From \in SUBSET States : Tidied(o, From)

(* An object never leaves the states it is confined to.                    *)
LEMMA ConfinedStep ==
    ASSUME TypeOK, Next, NEW o \in DOMAIN world, NEW From, world[o] \in From,
           Confined(plugin, o, From)
    PROVE  world'[o] \in From
<1>1. phase \notin Resting => Keeps(Script, 1, Len(Script), o, From)
  <2> SUFFICES ASSUME phase \notin Resting PROVE Keeps(Script, 1, Len(Script), o, From)
    OBVIOUS
  <2>1. PICK c \in Calls : Script = Plugins[plugin][c]
    BY Called DEF TypeOK
  <2> QED BY <2>1 DEF Confined
<1>2. /\ o \in Plugins[plugin].drifts => "absent" \in From
      /\ o \in Plugins[plugin].shared => "other" \in From
      /\ o \in Plugins[plugin].unmarked => "unmarked" \in From
  BY DEF Confined
<1> QED BY <1>1, <1>2, KeptByStep

(* One object of a step that cleans up.                                    *)
LEMMA TidiedStep ==
    ASSUME TypeOK, Next, NEW o \in DOMAIN world, NEW From, Tidied(o, From)
    PROVE  Tidied(o, From)'
<1>0. plugin' = plugin
  BY StepIs
<1>1. Confined(plugin, o, From)' /\ world'[o] \in From
  BY <1>0, ConfinedStep DEF Tidied
<1>2. CASE From \subseteq Clean
  BY <1>1, <1>2 DEF Tidied
<1>3. CASE /\ Sure("cleanup", "cleanupVerify", o, From, Clean)
           /\ phase = "cleaned" => world[o] \in Clean
  <2>1. Pair("cleanup", "cleanupVerify")
    BY DEF Pair
  <2>2. o \in Plugins[plugin].drifts => "absent" \in From
    BY DEF Tidied, Confined
  <2>3. /\ Sure("cleanup", "cleanupVerify", o, From, Clean)'
        /\ phase = "cleanupVerify" /\ phase' # "cleanupVerify" =>
              \/ phase' \in {OnError, "failed", "cleanupFailed"}
              \/ phase' = OnSuccess /\ world'[o] \in Clean
    BY <1>1, <1>3, <2>1, <2>2, SureStep
  <2>4. ASSUME phase' = "cleaned" PROVE world'[o] \in Clean
    <3>1. CASE phase \in Phases \ Resting /\ CallStep
      <4>1. phase' = OnError \/ phase' = OnSuccess
        BY <2>4, <3>1, CallStepPhase DEF Enter, Resting
      <4>2. phase = "cleanupVerify" /\ OnError # "cleaned"
        BY <2>4, <3>1, <4>1, Leads
      <4> QED BY <2>3, <2>4, <4>2
    <3>2. CASE Drift
      BY <1>3, <2>4, <3>2, DriftOne DEF Clean
    <3>3. CASE Intrude
      BY <1>3, <2>4, <3>3, IntrudeOne DEF Clean
    <3>4. CASE RequestCleanup
      BY <2>4, <3>4 DEF RequestCleanup, Enter
    <3> QED BY <2>4, <3>1, <3>2, <3>3, <3>4, StepIs
  <2> QED BY <1>1, <2>3, <2>4 DEF Tidied
<1> QED BY <1>2, <1>3 DEF Tidied

(* Only a plugin that cleans up is asked to.                               *)
LEMMA CleanableStep ==
    ASSUME TypeOK, Next,
           phase \in Cleaning \cup {"cleaned", "cleanupFailed"} => Plugins[plugin].cleanable,
           phase' \in Cleaning \cup {"cleaned", "cleanupFailed"}
    PROVE  Plugins[plugin].cleanable
<1>1. CASE phase \in Cleaning \cup {"cleaned", "cleanupFailed"}
  BY <1>1
<1>2. CASE phase \notin Cleaning \cup {"cleaned", "cleanupFailed"}
  <2>1. CASE phase \in Phases \ Resting /\ CallStep
    <3>1. phase' \in {OnError, OnSuccess}
      BY <1>2, <2>1, CallStepPhase DEF Enter
    <3> QED BY <1>2, <2>1, <3>1, Leads DEF Cleaning
  <2>2. CASE phase' = IF phase \in Cleaning THEN "cleanupFailed" ELSE "failed"
    BY <1>2, <2>2 DEF Cleaning
  <2>3. CASE Drift \/ Intrude
    BY <1>2, <2>3 DEF Drift, Intrude
  <2>4. CASE RequestCleanup
    BY <2>4 DEF RequestCleanup
  <2> QED BY <2>1, <2>2, <2>3, <2>4, StepIs
<1> QED BY <1>1, <1>2

(* Every step keeps the objects tidied.                                    *)
LEMMA TidyStep ==
    ASSUME TidyInv, Next
    PROVE  TidyInv'
<1>1. TypeOK /\ TypeOK' /\ plugin' = plugin /\ DOMAIN world = Plugins[plugin].objects
  BY TypeOKStep, StepIs DEF TidyInv, TypeOK
<1>2. phase' \in Cleaning \cup {"cleaned", "cleanupFailed"} => Plugins[plugin].cleanable
  BY <1>1, CleanableStep DEF TidyInv
<1>3. ASSUME CleansUp(plugin), Plugins[plugin].cleanable,
             NEW o \in Plugins[plugin].objects \ Plugins[plugin].keeps
      PROVE  \E From \in SUBSET States : Tidied(o, From)'
  <2>1. PICK From \in SUBSET States : Tidied(o, From)
    BY <1>3 DEF TidyInv
  <2>2. Tidied(o, From)'
    BY <1>1, <2>1, TidiedStep
  <2> QED BY <2>2
<1> QED BY <1>1, <1>2, <1>3 DEF TidyInv

(* A verified cleanup has taken back everything that the step made or      *)
(* changed (runCleanupStep): for every plugin whose Cleanup and Verify     *)
(* keep the rule CleansUp, after any number of failures, rollbacks and     *)
(* earlier attempts.                                                       *)
THEOREM CleanedAlwaysClean == Spec => [](CleansUp(plugin) => CleanedIsClean)
<1>1. Init => TidyInv
  <2> SUFFICES ASSUME Init PROVE TidyInv
    OBVIOUS
  <2>1. TypeOK
    BY InitTyped
  <2>2. phase = "validate"
    BY DEF Init
  <2>3. phase \notin Cleaning \cup {"cleaned", "cleanupFailed"}
    BY <2>2 DEF Cleaning
  <2>4. ASSUME CleansUp(plugin), Plugins[plugin].cleanable,
               NEW o \in Plugins[plugin].objects \ Plugins[plugin].keeps
        PROVE  \E From \in SUBSET States : Tidied(o, From)
    <3>1. PICK From \in SUBSET States :
              /\ Confined(plugin, o, From)
              /\ From \subseteq Clean \/ Ensures(plugin, "cleanup", "cleanupVerify", o, From, Clean)
      BY <2>4 DEF CleansUp
    <3>2. world[o] \in From
      BY <3>1 DEF Init, Confined
    <3>3. CASE From \subseteq Clean
      BY <3>1, <3>2, <3>3 DEF Tidied
    <3>4. CASE Ensures(plugin, "cleanup", "cleanupVerify", o, From, Clean)
      <4>1. Sure("cleanup", "cleanupVerify", o, From, Clean)
        BY <2>2, <3>4, SureAtFirst
      <4> QED BY <2>2, <3>1, <3>2, <4>1 DEF Tidied
    <3> QED BY <3>1, <3>3, <3>4
  <2> QED BY <2>1, <2>3, <2>4 DEF TidyInv
<1>2. TidyInv /\ [Next]_vars => TidyInv'
  <2> SUFFICES ASSUME TidyInv, [Next]_vars PROVE TidyInv'
    OBVIOUS
  <2>1. CASE Next
    BY <2>1, TidyStep
  <2>2. CASE UNCHANGED vars
    BY <2>2, ZenonT(60) DEF vars, TidyInv, TypeOK, Tidied, Sure, Looks, Leaves, Under
  <2> QED BY <2>1, <2>2
<1>3. TidyInv => (CleansUp(plugin) => CleanedIsClean)
  <2> SUFFICES ASSUME TidyInv, CleansUp(plugin), phase = "cleaned",
                      NEW o \in DOMAIN world \ Plugins[plugin].keeps
               PROVE  world[o] \notin {"own", "changed"}
    BY DEF CleanedIsClean
  <2>1. Plugins[plugin].cleanable /\ DOMAIN world = Plugins[plugin].objects
    BY DEF TidyInv, TypeOK
  <2>2. PICK From \in SUBSET States : Tidied(o, From)
    BY <2>1 DEF TidyInv
  <2>3. world[o] \in Clean
    BY <2>2 DEF Tidied
  <2> QED BY <2>3 DEF Clean
<1> QED BY <1>1, <1>2, <1>3, PTL DEF Spec
(***************************************************************************)
(* A flawed input has no effect                                            *)
(***************************************************************************)

(* The call runs into a command that refuses the flaw of the input.        *)
Stopped == \E k \in DOMAIN Script : StopsAt(Script, k, flaw) /\ at <= k

(* What is known of a step with a flawed input: a call that stops at the   *)
(* flaw has not come past the place, and so never led to the next one.     *)
FlawInv ==
    /\ TypeOK
    /\ flaw # "none" /\ phase # "rejected" => Entered(plugin, flaw, phase)
    /\ flaw # "none" /\ phase \notin Resting /\ Stops(Script, flaw) => Stopped

(* A command that does nothing leaves every object as it is.               *)
LEMMA AltersNothing ==
    ASSUME TypeOK, Running, NEW o \in DOMAIN world, Turned(Current), ~ Alters(Current)
    PROVE  world'[o] = world[o]
<1>1. CASE world'[o] = world[o]
  BY <1>1
<1>2. CASE /\ o \in Current.on /\ world[o] \in Current.ok
           /\ world'[o] = Current.turns[world[o]]
  BY <1>2 DEF Alters
<1> QED BY <1>1, <1>2, TurnedOne

(* A command that makes nothing leaves no object in place that was not.    *)
LEMMA MakesNothing ==
    ASSUME TypeOK, Running, NEW o \in DOMAIN world, Turned(Current), ~ Makes(Current),
           world'[o] \in InPlace
    PROVE  world'[o] = world[o]
<1>1. CASE world'[o] = world[o]
  BY <1>1
<1>2. CASE /\ o \in Current.on /\ world[o] \in Current.ok
           /\ world'[o] = Current.turns[world[o]]
  BY <1>2 DEF Makes
<1> QED BY <1>1, <1>2, TurnedOne

(* A flawed input is refused where the call looks for the flaw.            *)
LEMMA NotAccepted ==
    ASSUME NEW i, flaw \in i.flaws
    PROVE  /\ ~ Accepts(i)
           /\ Turned(i) => UNCHANGED world
BY DEF Accepts, Turned

(* A call that stops at a flaw fails or stays before the place where it    *)
(* stops, and what it does changes nothing.                                *)
LEMMA StoppedInCall ==
    ASSUME TypeOK, CallStep, phase \in Phases \ Resting, Stopped
    PROVE  /\ \/ Enter(OnError)
              \/ /\ phase' = phase
                 /\ \E k \in DOMAIN Script : StopsAt(Script, k, flaw) /\ at' <= k
           /\ \A o \in DOMAIN world : world'[o] = world[o]
<1>1. PICK c \in Calls : Script = Plugins[plugin][c]
  BY Called DEF TypeOK
<1>2. Len(Script) \in Nat /\ DOMAIN Script = 1 .. Len(Script)
  BY <1>1, ScriptsAssumption DEF TypeOK
<1>3. PICK k \in DOMAIN Script : StopsAt(Script, k, flaw) /\ at <= k
  BY DEF Stopped
<1>4. k \in Nat \ {0} /\ k <= Len(Script) /\ at \in Nat \ {0} /\ at \in 1 .. Len(Script)
  BY <1>2, <1>3 DEF TypeOK
<1>5. Running
  BY <1>4 DEF Running
<1>6. /\ at = k => flaw \in Current.flaws /\ Ways(Current) \subseteq {"fail", "none"}
      /\ at < k => /\ ~ Alters(Current)
                   /\ "return" \notin Ways(Current)
                   /\ "jump" \in Ways(Current) => at + Current.skip < k
  <2>1. CASE at = k
    BY <1>3, <1>4, <2>1 DEF StopsAt, Current, Ways
  <2>2. CASE at < k
    <3>1. at \in 1 .. (k - 1)
      BY <1>4, <2>2
    <3> QED BY <1>3, <1>4, <2>2, <3>1 DEF StopsAt, Unskipped, Current
  <2> QED BY <1>3, <1>4, <2>1, <2>2
<1>7. Turned(Current) \/ UNCHANGED world
  BY <1>5, FullyIsTurned DEF CallStep
<1>8. ASSUME NEW o \in DOMAIN world
      PROVE  world'[o] = world[o]
  <2>1. CASE at = k
    BY <1>6, <1>7, <2>1, NotAccepted
  <2>2. CASE at < k
    BY <1>5, <1>6, <1>7, <1>8, <2>2, AltersNothing
  <2> QED BY <1>3, <1>4, <2>1, <2>2
<1>9. \/ Enter(OnError)
      \/ phase' = phase /\ at' <= k
  <2> SUFFICES ASSUME ~ Enter(OnError) PROVE phase' = phase /\ at' <= k
    OBVIOUS
  <2>0. Current.skip \in Nat
    BY <1>5, CurrentIs
  <2>1. CASE Accepts(Current) /\ Advance(1)
    <3>1. at # k
      BY <1>6, <2>1, NotAccepted
    <3> QED BY <1>3, <1>4, <2>1, <3>1 DEF Advance
  <2>2. CASE \E how \in Ways(Current) : GoesOn(how, Current)
    <3>1. PICK how \in Ways(Current) : GoesOn(how, Current)
      BY <2>2
    <3>2. how \in {"return", "next", "jump", "defer"}
      BY <3>1 DEF GoesOn
    <3>3. at < k
      BY <1>3, <1>4, <1>6, <3>1, <3>2
    <3>4. how # "return"
      BY <1>6, <3>1, <3>3
    <3>5. CASE Advance(1)
      BY <1>4, <3>3, <3>5 DEF Advance
    <3>6. CASE how = "jump" /\ Advance(1 + Current.skip)
      <4>1. phase' = phase /\ at' = at + (1 + Current.skip)
        BY <3>6 DEF Advance
      <4>2. at + Current.skip < k
        BY <1>6, <3>1, <3>3, <3>6
      <4> QED BY <1>4, <2>0, <4>1, <4>2
    <3>7. CASE Collect
      BY <1>4, <3>3, <3>7 DEF Collect
    <3> QED BY <3>1, <3>4, <3>5, <3>6, <3>7 DEF GoesOn
  <2> QED BY <1>5, <2>1, <2>2 DEF CallStep
<1> QED BY <1>3, <1>8, <1>9

(* A call is entered with its first command.                               *)
LEMMA EnteredAtFirst ==
    ASSUME TypeOK, Next, phase' # phase, phase' \notin Resting
    PROVE  at' = 1
<1>1. CASE CallStep
  BY <1>1, CallStepPhase DEF Enter
<1>2. CASE phase' \in {"failed", "cleanupFailed"}
  BY <1>2 DEF Resting
<1>3. CASE Drift \/ Intrude
  BY <1>3 DEF Drift, Intrude
<1>4. CASE RequestCleanup
  BY <1>4 DEF RequestCleanup, Enter
<1> QED BY <1>1, <1>2, <1>3, <1>4, StepIs

(* A call that stops at the flaw does not end well.                        *)
LEMMA FlawEnters ==
    ASSUME FlawInv, Next, flaw # "none", phase' # "rejected"
    PROVE  Entered(plugin, flaw, phase')
<1>0. TypeOK
  BY DEF FlawInv
<1>1. CASE phase \in Phases \ Resting /\ CallStep
  <2>1. phase # "rejected" /\ Entered(plugin, flaw, phase)
    BY <1>1 DEF FlawInv, Resting
  <2>2. CASE phase' = phase
    BY <2>1, <2>2
  <2>3. CASE phase' = OnError
    BY <1>1, <2>1, <2>3, Leads DEF Entered
  <2>4. CASE Enter(OnSuccess) /\ phase' # phase /\ phase' # OnError
    <3>1. ~ Stops(Script, flaw)
      <4> SUFFICES ASSUME Stops(Script, flaw) PROVE FALSE
        OBVIOUS
      <4>1. Stopped
        BY <1>1 DEF FlawInv
      <4>2. Enter(OnError) \/ phase' = phase
        BY <1>0, <1>1, <4>1, StoppedInCall
      <4> QED BY <2>4, <4>2 DEF Enter
    <3>2. phase' = OnSuccess
      BY <2>4 DEF Enter
    <3>3. phase # "rollback" => Script = Plugins[plugin][phase]
      BY <1>1 DEF Script
    <3>4. CASE phase = "validate"
      BY <1>1, <3>1, <3>2, <3>3, <3>4, Leads DEF Entered
    <3>5. CASE phase = "precheck"
      BY <1>1, <2>1, <3>1, <3>2, <3>3, <3>5, Leads DEF Entered
    <3>6. CASE phase = "execute"
      BY <1>1, <2>1, <3>1, <3>2, <3>3, <3>6, Leads DEF Entered
    <3>7. CASE phase \in {"verify", "rollback", "undo", "cleanupVerify"}
      BY <1>1, <2>1, <3>2, <3>7, Leads DEF Entered
    <3>8. CASE phase = "cleanupPrecheck"
      BY <1>1, <2>1, <3>1, <3>2, <3>3, <3>8, Leads DEF Entered
    <3>9. CASE phase = "cleanup"
      BY <1>1, <2>1, <3>1, <3>2, <3>3, <3>9, Leads DEF Entered
    <3> QED BY <1>1, <3>4, <3>5, <3>6, <3>7, <3>8, <3>9 DEF Phases, Installing, Cleaning
  <2> QED BY <1>1, <2>2, <2>3, <2>4, CallStepPhase DEF Enter
<1>2. CASE /\ phase \in Phases \ Resting /\ phase # "validate"
           /\ phase' \in {"failed", "cleanupFailed"}
  BY <1>2 DEF FlawInv, Entered, Resting
<1>3. CASE Drift \/ Intrude
  BY <1>3 DEF FlawInv, Drift, Intrude
<1>4. CASE RequestCleanup
  BY <1>4 DEF FlawInv, RequestCleanup, Enter, Entered
<1> QED BY <1>0, <1>1, <1>2, <1>3, <1>4, StepIs
(* Every step keeps what is known of a flawed input.                       *)
LEMMA FlawStep ==
    ASSUME FlawInv, Next
    PROVE  FlawInv'
<1>1. TypeOK /\ TypeOK' /\ plugin' = plugin /\ flaw' = flaw
  BY TypeOKStep, StepIs DEF FlawInv
<1>2. flaw # "none" /\ phase' # "rejected" => Entered(plugin, flaw, phase')
  BY FlawEnters
<1>3. ASSUME flaw # "none", phase' \notin Resting, Stops(Script, flaw)'
      PROVE  Stopped'
  <2>1. CASE phase' # phase
    <3>1. at' = 1
      BY <1>1, <1>3, <2>1, EnteredAtFirst
    <3>2. PICK c \in Calls : Script' = Plugins[plugin][c]
      <4>1. \E c \in Calls : Script' = Plugins[plugin'][c]
        <5>1. plugin' \in Names /\ phase' \in Phases
          BY <1>1 DEF TypeOK
        <5>2. CASE phase' = "rollback"
          <6>1. Script' = Plugins[plugin']["cleanup"]
            BY <5>2 DEF Script, Resting
          <6> QED BY <6>1 DEF Calls
        <5>3. CASE phase' # "rollback"
          <6>1. Script' = Plugins[plugin'][phase']
            BY <1>3, <5>3 DEF Script
          <6>2. phase' \in Calls
            BY <1>3, <5>1, <5>3 DEF Calls, Phases, Installing, Cleaning, Resting
          <6> QED BY <6>1, <6>2
        <5> QED BY <5>2, <5>3
      <4> QED BY <1>1, <4>1
    <3>3. Len(Script') \in Nat /\ DOMAIN Script' = 1 .. Len(Script')
      BY <1>1, <3>2, ScriptsAssumption DEF TypeOK
    <3>4. PICK k \in DOMAIN Script' : StopsAt(Script', k, flaw)
      BY <1>1, <1>3 DEF Stops
    <3>5. at' <= k
      BY <3>1, <3>3, <3>4
    <3> QED BY <1>1, <3>4, <3>5 DEF Stopped
  <2>2. CASE phase' = phase
    <3>1. Script' = Script
      BY <1>1, <2>2 DEF Script
    <3>2. Stopped
      BY <1>1, <1>3, <2>2, <3>1 DEF FlawInv
    <3>3. phase \in Phases \ Resting
      BY <1>1, <1>3, <2>2 DEF TypeOK
    <3>4. CASE CallStep
      <4>1. \/ Enter(OnError)
            \/ \E k \in DOMAIN Script : StopsAt(Script, k, flaw) /\ at' <= k
        BY <1>1, <3>2, <3>3, <3>4, StoppedInCall
      <4>2. OnError # phase
        BY <3>3, Leads DEF Cleaning, Resting
      <4> QED BY <1>1, <2>2, <3>1, <4>1, <4>2 DEF Enter, Stopped
    <3>5. CASE Drift
      BY <1>1, <3>1, <3>2, <3>5 DEF Drift, Stopped
    <3>6. CASE Intrude \/ RequestCleanup
      BY <3>3, <3>6 DEF Intrude, RequestCleanup, Resting
    <3>7. CASE phase' \in {"failed", "cleanupFailed"}
      BY <1>3, <3>7 DEF Resting
    <3> QED BY <1>1, <3>4, <3>5, <3>6, <3>7, StepIs
  <2> QED BY <2>1, <2>2
<1> QED BY <1>1, <1>2, <1>3 DEF FlawInv

(* No step of a flawed input makes or changes anything.                    *)
LEMMA FlawEffect ==
    ASSUME FlawInv, Next, RefusesFlaws(plugin), flaw # "none",
           NEW o \in DOMAIN world, world'[o] \in InPlace
    PROVE  world[o] = world'[o]
<1>0. TypeOK
  BY DEF FlawInv
<1>1. CASE phase \in Phases \ Resting /\ CallStep
  <2>1. Entered(plugin, flaw, phase)
    BY <1>1 DEF FlawInv, Resting
  <2>2. Script = ScriptOf(plugin, phase) /\ phase \in Installing \cup Cleaning
    BY <1>1, ScriptIs DEF Phases, Script, ScriptOf
  <2>3. flaw \in Plugins[plugin].flaws
    BY <1>0 DEF TypeOK
  <2>4. Stops(Script, flaw) \/ \A k \in DOMAIN Script : ~ Makes(Script[k])
    BY <2>1, <2>2, <2>3 DEF RefusesFlaws
  <2>5. CASE Stops(Script, flaw)
    <3>1. Stopped
      BY <1>1, <2>5 DEF FlawInv
    <3> QED BY <1>0, <1>1, <3>1, StoppedInCall
  <2>6. CASE \A k \in DOMAIN Script : ~ Makes(Script[k])
    <3>1. CASE Running /\ Turned(Current)
      <4>1. ~ Makes(Current)
        BY <1>0, <2>6, <3>1, CurrentIs DEF Current
      <4> QED BY <1>0, <3>1, <4>1, MakesNothing
    <3>2. CASE UNCHANGED world
      BY <3>2
    <3>3. CASE Running /\ Accepts(Current) /\ Turn(Current, Current.on)
      BY <3>1, <3>3, FullyIsTurned
    <3> QED BY <1>1, <3>1, <3>2, <3>3 DEF CallStep
  <2> QED BY <2>4, <2>5, <2>6
<1>2. CASE Drift
  BY <1>2, DriftOne DEF InPlace
<1>3. CASE Intrude
  BY <1>3, IntrudeOne DEF InPlace
<1>4. CASE RequestCleanup
  BY <1>4 DEF RequestCleanup
<1>5. CASE UNCHANGED world
  BY <1>5
<1> QED BY <1>0, <1>1, <1>2, <1>3, <1>4, <1>5, StepIs

(* No command of the installation does anything to a flawed input.         *)
LEMMA FlawUntouched ==
    ASSUME FlawInv, Next, LeavesInPlace(plugin), flaw # "none", phase \in Installing, Commanded
    PROVE  UNCHANGED world
<1>0. TypeOK /\ TypeOK' /\ plugin' = plugin
  BY TypeOKStep, StepIs DEF FlawInv
<1>1. CASE phase \in Phases \ Resting /\ CallStep
  <2>1. Entered(plugin, flaw, phase)
    BY <1>1 DEF FlawInv, Resting
  <2>2. Script = ScriptOf(plugin, phase)
    BY <1>1, ScriptIs DEF Phases, Script, ScriptOf
  <2>3. flaw \in Plugins[plugin].flaws
    BY <1>0 DEF TypeOK
  <2>4. Stops(Script, flaw) \/ \A k \in DOMAIN Script : ~ Alters(Script[k])
    BY <2>1, <2>2, <2>3 DEF LeavesInPlace
  <2>5. ASSUME NEW o \in DOMAIN world
        PROVE  world'[o] = world[o]
    <3>1. CASE Stops(Script, flaw)
      <4>1. Stopped
        BY <1>1, <3>1 DEF FlawInv
      <4> QED BY <1>0, <1>1, <4>1, StoppedInCall
    <3>2. CASE \A k \in DOMAIN Script : ~ Alters(Script[k])
      <4>1. CASE Running /\ Turned(Current)
        <5>1. ~ Alters(Current)
          BY <1>0, <3>2, <4>1, CurrentIs DEF Current
        <5> QED BY <1>0, <4>1, <5>1, AltersNothing
      <4>2. CASE UNCHANGED world
        BY <4>2
      <4>3. CASE Running /\ Accepts(Current) /\ Turn(Current, Current.on)
        BY <4>1, <4>3, FullyIsTurned
      <4> QED BY <1>1, <4>1, <4>2, <4>3 DEF CallStep
    <3> QED BY <2>4, <3>1, <3>2
  <2> QED BY <1>0, <2>5 DEF TypeOK
<1>2. CASE Drift
  BY <1>2 DEF Drift, Commanded
<1>3. CASE Intrude \/ RequestCleanup
  BY <1>3 DEF Intrude, RequestCleanup, Resting, Installing
<1>4. CASE UNCHANGED world
  BY <1>4
<1> QED BY <1>0, <1>1, <1>2, <1>3, <1>4, StepIs

(* An input that a check of the plugin rejects never causes an effect, for *)
(* every plugin whose calls keep the rules RefusesFlaws and LeavesInPlace: *)
(* whichever of them meets the flaw refuses it before it does anything     *)
(* (Validate, Precheck, Execute, Verify, the rollback by Cleanup), whatever*)
(* else fails, and a cleanup operation makes and changes nothing.          *)
THEOREM FlawedNeverHasEffect ==
    ASSUME \A p \in Names : RefusesFlaws(p),
           \A p \in Names \ Known.removing : LeavesInPlace(p)
    PROVE  Spec => FlawedHasNoEffect
<1>1. Init => FlawInv
  <2> SUFFICES ASSUME Init PROVE FlawInv
    OBVIOUS
  <2>1. TypeOK
    BY InitTyped
  <2>2. phase = "validate" /\ at = 1 /\ plugin \in Names
    BY DEF Init
  <2>3. Entered(plugin, flaw, phase)
    BY <2>2 DEF Entered
  <2>4. ASSUME Stops(Script, flaw) PROVE Stopped
    <3>1. Script = Plugins[plugin]["validate"]
      BY <2>2 DEF Script, Resting
    <3>2. Len(Script) \in Nat /\ DOMAIN Script = 1 .. Len(Script)
      BY <2>2, <3>1, ScriptsAssumption DEF Calls
    <3>3. PICK k \in DOMAIN Script : StopsAt(Script, k, flaw)
      BY <2>4 DEF Stops
    <3>4. at <= k
      BY <2>2, <3>2, <3>3
    <3> QED BY <3>3, <3>4 DEF Stopped
  <2> QED BY <2>1, <2>3, <2>4 DEF FlawInv
<1>2. FlawInv /\ [Next]_vars => FlawInv'
  <2> SUFFICES ASSUME FlawInv, [Next]_vars PROVE FlawInv'
    OBVIOUS
  <2>1. CASE Next
    BY <2>1, FlawStep
  <2>2. CASE UNCHANGED vars
    BY <2>2 DEF vars, FlawInv, TypeOK, Script, Stopped
  <2> QED BY <2>1, <2>2
<1>3. FlawInv /\ [Next]_vars =>
          [flaw # "none" =>
              /\ \A o \in DOMAIN world : world'[o] \in {"own", "changed"} => world[o] = world'[o]
              /\ phase \in Installing /\ Commanded /\ plugin \notin Known.removing => UNCHANGED world]_vars
  <2> SUFFICES ASSUME FlawInv, Next, flaw # "none"
               PROVE  /\ \A o \in DOMAIN world : world'[o] \in {"own", "changed"} => world[o] = world'[o]
                      /\ phase \in Installing /\ Commanded /\ plugin \notin Known.removing => UNCHANGED world
    OBVIOUS
  <2>0. plugin \in Names
    BY DEF FlawInv, TypeOK
  <2>1. ASSUME NEW o \in DOMAIN world, world'[o] \in {"own", "changed"}
        PROVE  world[o] = world'[o]
    <3>1. RefusesFlaws(plugin) /\ world'[o] \in InPlace
      BY <2>0, <2>1 DEF InPlace
    <3> QED BY <3>1, FlawEffect
  <2>2. ASSUME phase \in Installing, Commanded, plugin \notin Known.removing
        PROVE  UNCHANGED world
    <3>1. LeavesInPlace(plugin)
      BY <2>0, <2>2
    <3> QED BY <2>2, <3>1, FlawUntouched
  <2> QED BY <2>1, <2>2
<1> QED BY <1>1, <1>2, <1>3, PTL DEF Spec, FlawedHasNoEffect
(***************************************************************************)
(* What is not ours is left alone                                          *)
(***************************************************************************)

(* Behind a command that looks, the object is not in x.                    *)
Guarded(o, x) ==
    \A j \in DOMAIN Script : \A k \in 1 .. (j - 1) :
        GuardsAt(Script, k, j, o, x) /\ k < at /\ at <= j => world[o] # x

(* The phases that a precheck leads to.                                    *)
Phased(c) == IF c = "precheck" THEN {"execute", "verify", "rollback", "undo"}
                               ELSE {"cleanup", "cleanupVerify"}
AfterOf(c) == IF c = "precheck" THEN AfterPrecheck ELSE AfterCleanupPrecheck

Screened(c, o, x) ==
    Screens(plugin, c, AfterOf(c), o, x) =>
        /\ phase = c => Under(Plugins[plugin][c], o, States, Others(x))
        /\ phase \in Phased(c) => world[o] # x

Fresh(o, x) ==
    /\ phase \in Installing
    /\ \A w \in Plugins[plugin].start : w[o] # x
    /\ KeptIn(plugin, AfterPrecheck \cup {"validate", "precheck"}, o, Others(x))
    => world[o] # x

(* The states of what is not the step's.                                   *)
Alien == {"other", "unmarked", "original"}

(* All that keeps an object from being found in x by the wrong command.    *)
Spared(o, x) ==
    /\ Confined(plugin, o, Others(x)) => world[o] # x
    /\ Guarded(o, x)
    /\ Screened("precheck", o, x) /\ Screened("cleanupPrecheck", o, x)
    /\ Fresh(o, x)

ForeignInv ==
    /\ TypeOK
    /\ phase \in Cleaning \cup {"cleaned", "cleanupFailed"} => Plugins[plugin].cleanable
    /\ \A o \in Plugins[plugin].objects, x \in Alien : Spared(o, x)

(* The call behind a phase.                                                *)
LEMMA CallOf ==
    ASSUME plugin \in Names, phase \in Phases \ Resting
    PROVE  Script = Plugins[plugin][IF phase = "rollback" THEN "cleanup" ELSE phase]
<1>1. CASE phase = "rollback"
  BY <1>1 DEF Script, Resting
<1>2. CASE phase # "rollback"
  BY <1>2 DEF Script
<1> QED BY <1>1, <1>2

(* No way leads around a command that looks.                               *)
LEMMA GuardedStep ==
    ASSUME TypeOK, Next, NEW o \in DOMAIN world, NEW x, Guarded(o, x)
    PROVE  Guarded(o, x)'
<1>0. plugin' = plugin /\ TypeOK'
  BY TypeOKStep, StepIs
<1> SUFFICES ASSUME NEW j \in DOMAIN Script', NEW k \in 1 .. (j - 1),
                    GuardsAt(Script', k, j, o, x), k < at', at' <= j
             PROVE  world'[o] # x
  BY DEF Guarded
<1>1. CASE phase' # phase
  <2>1. CASE phase' \in Resting
    <3>1. Script' = <<>>
      BY <2>1 DEF Script, Resting
    <3> QED BY <3>1
  <2>2. CASE phase' \notin Resting
    BY <1>1, <2>2, EnteredAtFirst
  <2> QED BY <2>1, <2>2
<1>2. CASE phase' = phase
  <2>0. Script' = Script
    BY <1>0, <1>2 DEF Script
  <2>1. CASE phase \in Resting
    <3>1. Script = <<>>
      BY <2>1 DEF Script, Resting
    <3> QED BY <2>0, <3>1
  <2>2. CASE phase \in Phases \ Resting
    <3>1. PICK c \in Calls : Script = Plugins[plugin][c]
      BY <2>2, Called DEF TypeOK
    <3>2. Len(Script) \in Nat /\ DOMAIN Script = 1 .. Len(Script)
      BY <3>1, ScriptsAssumption DEF TypeOK
    <3>3. j \in Nat /\ j <= Len(Script) /\ k \in Nat \ {0} /\ k < j /\ at \in Nat \ {0}
      BY <2>0, <3>2 DEF TypeOK
    <3>4. CASE Drift
      BY <3>3, <3>4, DriftOne
    <3>5. CASE Intrude \/ RequestCleanup
      BY <2>2, <3>5 DEF Intrude, RequestCleanup, Resting
    <3>6. CASE phase' \in {"failed", "cleanupFailed"}
      BY <1>2, <2>2, <3>6 DEF Resting
    <3>7. CASE CallStep
      <4>1. OnError # phase /\ OnSuccess # phase
        BY <2>2, PhaseChanges
      <4>2. Running
        BY <1>2, <3>7, <4>1 DEF CallStep, Enter
      <4>3. \/ Accepts(Current) /\ Turn(Current, Current.on) /\ at' = at + 1
            \/ Turned(Current) /\ \E how \in Ways(Current) :
                  \/ how \in {"next", "defer"} /\ at' = at + 1
                  \/ how = "jump" /\ at' = at + (1 + Current.skip)
        <5>1. CASE Accepts(Current) /\ Turn(Current, Current.on) /\ Advance(1)
          BY <5>1 DEF Advance
        <5>2. CASE Turned(Current) /\ \E how \in Ways(Current) : GoesOn(how, Current)
          <6>1. PICK how \in Ways(Current) : GoesOn(how, Current)
            BY <5>2
          <6>2. how # "return"
            BY <1>2, <4>1, <6>1 DEF GoesOn, Enter
          <6> QED BY <5>2, <6>1, <6>2 DEF GoesOn, Advance, Collect
        <5> QED BY <1>2, <3>7, <4>1, <5>1, <5>2 DEF CallStep, Enter
      <4>4. Turned(Current) /\ Current = Script[at] /\ Current.skip \in Nat /\ at <= Len(Script)
        BY <4>2, <4>3, FullyIsTurned, CurrentIs DEF Current, Running
      <4>5. at < at' /\ at < j
        BY <3>3, <4>3, <4>4
      <4>6. CASE at < k
        <5>1. at' > k
          BY <3>3
        <5>2. PICK how \in Ways(Current) : how = "jump" /\ at' = at + (1 + Current.skip)
          BY <3>3, <4>3, <4>6
        <5>3. at + Current.skip < k \/ at + Current.skip >= j
          <6>1. at \in 1 .. (k - 1)
            BY <3>3, <4>6
          <6> QED BY <2>0, <4>4, <5>2, <6>1 DEF GuardsAt
        <5> QED BY <3>3, <4>4, <5>1, <5>2, <5>3
      <4>7. CASE at >= k
        <5>0. Takes(Script, at, o, Others(x), Others(x))
          <6>1. at \in k .. (j - 1)
            BY <3>3, <4>5, <4>7
          <6> QED BY <2>0, <6>1 DEF GuardsAt, Keeps
        <5>1. world[o] # x
          <6>1. CASE at = k
            <7>1. o \in Current.on /\ x \notin Current.ok
              BY <2>0, <4>4, <6>1 DEF GuardsAt
            <7>2. CASE Accepts(Current)
              BY <7>1, <7>2 DEF Accepts
            <7>3. CASE \E how \in Ways(Current) :
                          \/ how \in {"next", "defer"}
                          \/ how = "jump" /\ at' = at + (1 + Current.skip)
              <8>1. PICK how \in Ways(Current) :
                          \/ how \in {"next", "defer"}
                          \/ how = "jump" /\ at' = at + (1 + Current.skip)
                BY <7>3
              <8>2. how \notin {"next", "defer"}
                BY <2>0, <4>4, <6>1, <8>1 DEF GuardsAt
              <8>3. k + Current.skip >= j
                BY <2>0, <4>4, <6>1, <8>1, <8>2 DEF GuardsAt
              <8> QED BY <3>3, <4>4, <6>1, <8>1, <8>2, <8>3
            <7> QED BY <4>3, <7>2, <7>3
          <6>2. CASE at > k
            <7>1. k < at /\ at <= j
              BY <3>3, <4>5, <6>2
            <7> QED BY <2>0, <7>1 DEF Guarded
          <6> QED BY <3>3, <4>7, <6>1, <6>2
        <5>2. world[o] \in Others(x)
          BY <5>1 DEF Others, TypeOK
        <5>3. world'[o] \in Others(x)
          BY <4>2, <4>4, <5>0, <5>2, KeptByCommand
        <5> QED BY <5>3 DEF Others
      <4> QED BY <3>3, <4>6, <4>7
    <3> QED BY <3>4, <3>5, <3>6, <3>7, StepIs
  <2> QED BY <2>1, <2>2 DEF TypeOK
<1> QED BY <1>1, <1>2
(* What all the calls of some phases keep out of x stays out of it.        *)
LEMMA KeptOut ==
    ASSUME TypeOK, Next, NEW o \in DOMAIN world, NEW x \in Alien,
           phase \in Phases \ Resting, world[o] # x, NEW calls,
           (IF phase = "rollback" THEN "cleanup" ELSE phase) \in calls,
           KeptIn(plugin, calls, o, Others(x))
    PROVE  world'[o] # x
<1>1. PICK c : c = IF phase = "rollback" THEN "cleanup" ELSE phase
  OBVIOUS
<1>2. Script = Plugins[plugin][c] /\ c \in calls
  BY <1>1, CallOf DEF TypeOK
<1>3. Keeps(Script, 1, Len(Script), o, Others(x))
  BY <1>2 DEF KeptIn
<1>4. world[o] \in Others(x) /\ "absent" \in Others(x)
  BY DEF Others, TypeOK, States, Alien
<1>5. world'[o] \in Others(x)
  BY <1>3, <1>4, KeptByStep
<1> QED BY <1>5 DEF Others

(* What a precheck let pass is out of x until its calls have ended.        *)
LEMMA ScreenedStep ==
    ASSUME TypeOK, Next, NEW o \in DOMAIN world, NEW x \in Alien,
           NEW c \in {"precheck", "cleanupPrecheck"}, Screened(c, o, x)
    PROVE  Screened(c, o, x)'
<1>0. plugin' = plugin /\ TypeOK'
  BY TypeOKStep, StepIs
<1> SUFFICES ASSUME Screens(plugin, c, AfterOf(c), o, x)
             PROVE  /\ phase' = c => Under(Plugins[plugin][c], o, States, Others(x))'
                    /\ phase' \in Phased(c) => world'[o] # x
  BY <1>0 DEF Screened
<1>1. /\ phase = c => Under(Plugins[plugin][c], o, States, Others(x))
      /\ phase \in Phased(c) => world[o] # x
  BY DEF Screened
<1>2. Establishes(Plugins[plugin][c], o, States, Others(x)) /\ KeptIn(plugin, AfterOf(c), o, Others(x))
  BY DEF Screens
<1>3. world'[o] \in States /\ "absent" \in States /\ c \in Working
  <2>1. o \in Plugins[plugin].objects
    BY DEF TypeOK
  <2> QED BY <1>0, <2>1 DEF TypeOK, States, Working
<1>4. /\ phase' = c => Under(Plugins[plugin][c], o, States, Others(x))'
      /\ phase = c /\ phase' # c =>
            \/ phase' \in {OnError, "failed", "cleanupFailed"}
            \/ phase' = OnSuccess /\ world'[o] \in Others(x)
  BY <1>1, <1>2, <1>3, UnderStep
<1>5. ASSUME phase' \in Phased(c) PROVE world'[o] # x
  <2>1. CASE phase \in Phased(c)
    <3>1. phase \in Phases \ Resting
      BY <2>1 DEF Phased, Phases, Installing, Cleaning, Resting
    <3>2. (IF phase = "rollback" THEN "cleanup" ELSE phase) \in AfterOf(c)
      BY <2>1 DEF Phased, AfterOf, AfterPrecheck, AfterCleanupPrecheck
    <3> QED BY <1>1, <1>2, <2>1, <3>1, <3>2, KeptOut
  <2>2. CASE phase \notin Phased(c)
    <3>1. phase = c /\ phase' \notin {OnError, "failed", "cleanupFailed"} /\ phase' # c
      <4>1. CASE phase \in Phases \ Resting /\ CallStep
        <5>1. phase' = OnError \/ phase' = OnSuccess
          BY <1>5, <2>2, <4>1, CallStepPhase DEF Enter
        <5>2. phase' # OnError
          BY <1>5, <2>2, <4>1, Leads DEF Phased
        <5>3. phase = c
          BY <1>5, <2>2, <4>1, <5>1, <5>2, Leads DEF Phased
        <5> QED BY <1>5, <5>2, <5>3 DEF Phased
      <4>2. CASE phase' \in {"failed", "cleanupFailed"}
        BY <1>5, <4>2 DEF Phased
      <4>3. CASE Drift \/ Intrude
        BY <1>5, <2>2, <4>3 DEF Drift, Intrude
      <4>4. CASE RequestCleanup
        BY <1>5, <4>4 DEF RequestCleanup, Enter, Phased
      <4> QED BY <4>1, <4>2, <4>3, <4>4, StepIs
    <3>2. world'[o] \in Others(x)
      BY <1>4, <3>1
    <3> QED BY <3>2 DEF Others
  <2> QED BY <2>1, <2>2
<1> QED BY <1>4, <1>5

(* What was out of x at the start is so until the step rests.              *)
LEMMA FreshStep ==
    ASSUME TypeOK, Next, NEW o \in DOMAIN world, NEW x \in Alien, Fresh(o, x)
    PROVE  Fresh(o, x)'
<1>0. plugin' = plugin
  BY StepIs
<1> SUFFICES ASSUME phase' \in Installing,
                    \A w \in Plugins[plugin].start : w[o] # x,
                    KeptIn(plugin, AfterPrecheck \cup {"validate", "precheck"}, o, Others(x))
             PROVE  world'[o] # x
  BY <1>0 DEF Fresh
<1>1. phase \in Installing
  <2>1. CASE phase \in Phases \ Resting /\ CallStep
    <3>1. phase' = OnError \/ phase' = OnSuccess \/ phase' = phase
      BY <2>1, CallStepPhase DEF Enter
    <3> QED BY <2>1, <3>1, Leads DEF Installing
  <2>2. CASE phase' \in {"failed", "cleanupFailed"}
    BY <2>2 DEF Installing
  <2>3. CASE Drift \/ Intrude
    BY <2>3 DEF Drift, Intrude
  <2>4. CASE RequestCleanup
    BY <2>4 DEF RequestCleanup, Enter, Installing
  <2> QED BY <2>1, <2>2, <2>3, <2>4, StepIs
<1>2. world[o] # x
  BY <1>1 DEF Fresh
<1>3. /\ phase \in Phases \ Resting
      /\ (IF phase = "rollback" THEN "cleanup" ELSE phase) \in AfterPrecheck \cup {"validate", "precheck"}
  BY <1>1 DEF Phases, Installing, Resting, AfterPrecheck
<1> QED BY <1>2, <1>3, KeptOut

(* One object, with all that protects it.                                  *)
LEMMA SparedStep ==
    ASSUME TypeOK, Next, NEW o \in DOMAIN world, NEW x \in Alien, Spared(o, x)
    PROVE  Spared(o, x)'
<1>1. (Confined(plugin, o, Others(x)) => world[o] # x)'
  <2>1. plugin' = plugin
    BY StepIs
  <2> SUFFICES ASSUME Confined(plugin, o, Others(x)) PROVE world'[o] # x
    BY <2>1
  <2>2. world[o] \in Others(x)
    BY DEF Spared, Others, TypeOK
  <2>3. world'[o] \in Others(x)
    BY <2>2, ConfinedStep
  <2> QED BY <2>3 DEF Others
<1>2. Guarded(o, x)'
  BY GuardedStep DEF Spared
<1>3. Screened("precheck", o, x)' /\ Screened("cleanupPrecheck", o, x)'
  BY ScreenedStep DEF Spared
<1>4. Fresh(o, x)'
  BY FreshStep DEF Spared
<1> QED BY <1>1, <1>2, <1>3, <1>4 DEF Spared

(* A safe command does not hurt what it finds in x.                        *)
LEMMA SafeCommand ==
    ASSUME TypeOK, Running, NEW o \in DOMAIN world, NEW x, world[o] = x, Turned(Current),
           x \in Bears(x), Guarded(o, x), SafeAt(Script, at, o, x)
    PROVE  world'[o] \in Bears(x)
<1>1. CASE Takes(Script, at, o, {x}, Bears(x))
  BY <1>1, TurnedOne DEF Takes, Current
<1>2. CASE \E k \in 1 .. (at - 1) : GuardsAt(Script, k, at, o, x)
  <2>1. PICK k \in 1 .. (at - 1) : GuardsAt(Script, k, at, o, x)
    BY <1>2
  <2>2. at \in DOMAIN Script /\ k < at /\ at <= at
    BY <2>1, CurrentIs DEF TypeOK
  <2> QED BY <2>1, <2>2 DEF Guarded
<1> QED BY <1>1, <1>2 DEF SafeAt

(* A plugin that respects others finds nothing in x where it would hurt.   *)
LEMMA RespectedAt ==
    ASSUME ForeignInv, phase \in Phases \ Resting, Running,
           NEW o \in DOMAIN world, NEW x \in Alien, LeavesAlone(plugin, o, x), world[o] = x
    PROVE  SafeAt(Script, at, o, x)
<1>0. TypeOK /\ o \in Plugins[plugin].objects
  BY DEF ForeignInv, TypeOK
<1>1. Spared(o, x) /\ LeavesAlone(plugin, o, x)
  BY <1>0 DEF ForeignInv
<1>2. ~ Confined(plugin, o, Others(x))
  BY <1>1 DEF Spared
<1>3. PICK c : c = IF phase = "rollback" THEN "cleanup" ELSE phase
  OBVIOUS
<1>4. Script = Plugins[plugin][c] /\ at \in DOMAIN Plugins[plugin][c]
  BY <1>0, <1>3, CallOf, CurrentIs DEF TypeOK
<1>5. ASSUME NEW calls, c \in calls, SafeIn(plugin, calls, o, x)
      PROVE  SafeAt(Script, at, o, x)
  BY <1>4, <1>5 DEF SafeIn
<1>6. CASE phase \in Installing
  <2>1. SafeInstalling(plugin, o, x)
    BY <1>1, <1>2 DEF LeavesAlone
  <2>2. /\ SafeIn(plugin, {"validate", "precheck"}, o, x)
        /\ \/ SafeIn(plugin, AfterPrecheck, o, x)
           \/ Screens(plugin, "precheck", AfterPrecheck, o, x)
    BY <1>1, <1>6, <2>1 DEF SafeInstalling, Spared, Fresh
  <2>3. CASE phase \in {"validate", "precheck"}
    BY <1>3, <1>5, <2>2, <2>3
  <2>4. CASE phase \notin {"validate", "precheck"}
    <3>1. c \in AfterPrecheck /\ phase \in Phased("precheck")
      BY <1>3, <1>6, <2>4 DEF Installing, AfterPrecheck, Phased
    <3>2. ~ Screens(plugin, "precheck", AfterPrecheck, o, x)
      BY <1>1, <3>1 DEF Spared, Screened, AfterOf
    <3> QED BY <1>5, <2>2, <3>1, <3>2
  <2> QED BY <2>3, <2>4
<1>7. CASE phase \in Cleaning
  <2>1. SafeCleaning(plugin, o, x)
    BY <1>1, <1>2, <1>7 DEF LeavesAlone, ForeignInv
  <2>2. CASE phase = "cleanupPrecheck"
    BY <1>3, <1>5, <2>1, <2>2 DEF SafeCleaning
  <2>3. CASE phase # "cleanupPrecheck"
    <3>1. c \in AfterCleanupPrecheck /\ phase \in Phased("cleanupPrecheck")
      BY <1>3, <1>7, <2>3 DEF Cleaning, AfterCleanupPrecheck, Phased
    <3>2. ~ Screens(plugin, "cleanupPrecheck", AfterCleanupPrecheck, o, x)
      BY <1>1, <3>1 DEF Spared, Screened, AfterOf
    <3> QED BY <1>5, <2>1, <3>1, <3>2 DEF SafeCleaning
  <2> QED BY <2>2, <2>3
<1> QED BY <1>6, <1>7 DEF Phases
(* Every step keeps the objects protected.                                 *)
LEMMA ForeignStep ==
    ASSUME ForeignInv, Next
    PROVE  ForeignInv'
<1>1. TypeOK /\ TypeOK' /\ plugin' = plugin /\ DOMAIN world = Plugins[plugin].objects
  BY TypeOKStep, StepIs DEF ForeignInv, TypeOK
<1>2. phase' \in Cleaning \cup {"cleaned", "cleanupFailed"} => Plugins[plugin].cleanable
  BY <1>1, CleanableStep DEF ForeignInv
<1>3. ASSUME NEW o \in Plugins[plugin].objects, NEW x \in Alien
      PROVE  Spared(o, x)'
  BY <1>1, SparedStep DEF ForeignInv
<1> QED BY <1>1, <1>2, <1>3 DEF ForeignInv

(* An object that the plugin leaves alone bears no more than that.         *)
LEMMA AlienEffect ==
    ASSUME ForeignInv, Next, NEW o \in DOMAIN world, NEW x \in Alien, LeavesAlone(plugin, o, x), world[o] = x
    PROVE  world'[o] \in Bears(x)
<1>0. TypeOK /\ DOMAIN world = Plugins[plugin].objects
  BY DEF ForeignInv, TypeOK
<1>1. world'[o] \in Bears(x)
  <2>0. x \in Bears(x) /\ x \notin {"own", "changed", "absent"}
    BY DEF Bears, Alien
  <2>1. CASE phase \in Phases \ Resting /\ CallStep
    <3>1. CASE UNCHANGED world
      BY <2>0, <3>1
    <3>2. CASE Running /\ Turned(Current)
      <4>1. SafeAt(Script, at, o, x)
        BY <2>1, <3>2, RespectedAt
      <4>2. Guarded(o, x)
        BY <1>0 DEF ForeignInv, Spared
      <4> QED BY <1>0, <2>0, <3>2, <4>1, <4>2, SafeCommand
    <3>3. CASE Running /\ Accepts(Current) /\ Turn(Current, Current.on)
      BY <3>2, <3>3, FullyIsTurned
    <3> QED BY <2>1, <3>1, <3>2, <3>3 DEF CallStep
  <2>2. CASE Drift
    <3>1. PICK d \in Plugins[plugin].drifts : /\ world[d] \in {"own", "changed"}
                                              /\ world' = [world EXCEPT ![d] = "absent"]
      BY <2>2 DEF Drift
    <3>2. o # d
      BY <2>0, <3>1
    <3> QED BY <2>0, <3>1, <3>2
  <2>3. CASE Intrude
    <3>1. PICK d \in Plugins[plugin].objects, y \in Foreign :
              /\ world[d] = "absent"
              /\ world' = [world EXCEPT ![d] = y]
      BY <2>3 DEF Intrude
    <3>2. o # d
      BY <2>0, <3>1
    <3> QED BY <2>0, <3>1, <3>2
  <2>4. CASE RequestCleanup
    BY <2>0, <2>4 DEF RequestCleanup
  <2>5. CASE UNCHANGED world
    BY <2>0, <2>5
  <2> QED BY <1>0, <2>1, <2>2, <2>3, <2>4, <2>5, StepIs
<1> QED BY <1>1

(* A plugin that respects others spares what is not its own, and one that  *)
(* asks for its marker what has none.                                      *)
LEMMA ForeignEffect ==
    ASSUME ForeignInv, Next
    PROVE  /\ RespectsOthers(plugin) => SparesForeign
           /\ RespectsUnmarked(plugin) => SparesUnmarked
<1>0. DOMAIN world = Plugins[plugin].objects
  BY DEF ForeignInv, TypeOK
<1>1. ASSUME RespectsOthers(plugin), NEW o \in DOMAIN world, NEW x \in {"other", "original"}, world[o] = x
      PROVE  world'[o] \in Bears(x)
  <2>1. x \in Alien /\ LeavesAlone(plugin, o, x)
    BY <1>0, <1>1 DEF RespectsOthers, Alien
  <2> QED BY <1>1, <2>1, AlienEffect
<1>2. ASSUME RespectsUnmarked(plugin), NEW o \in DOMAIN world, world[o] = "unmarked"
      PROVE  world'[o] \in Bears("unmarked")
  <2>1. "unmarked" \in Alien /\ LeavesAlone(plugin, o, "unmarked")
    BY <1>0, <1>2 DEF RespectsUnmarked, Alien
  <2> QED BY <1>2, <2>1, AlienEffect
<1> QED BY <1>1, <1>2 DEF SparesForeign, SparesUnmarked, Bears

(* The initial states.                                                     *)
LEMMA ForeignInit ==
    ASSUME Init
    PROVE  ForeignInv
<1>1. TypeOK /\ phase = "validate" /\ at = 1 /\ world \in Plugins[plugin].start
  BY InitTyped DEF Init
<1>2. phase \notin Cleaning \cup {"cleaned", "cleanupFailed"}
  BY <1>1 DEF Cleaning
<1>3. ASSUME NEW o \in Plugins[plugin].objects, NEW x \in Alien
      PROVE  Spared(o, x)
  <2>1. Confined(plugin, o, Others(x)) => world[o] # x
    BY <1>1 DEF Confined, Others
  <2>2. Guarded(o, x)
    BY <1>1 DEF Guarded
  <2>3. Screened("precheck", o, x) /\ Screened("cleanupPrecheck", o, x)
    BY <1>1 DEF Screened, Phased
  <2>4. Fresh(o, x)
    BY <1>1 DEF Fresh
  <2> QED BY <2>1, <2>2, <2>3, <2>4 DEF Spared
<1> QED BY <1>1, <1>2, <1>3 DEF ForeignInv

(* A plugin that keeps the rule RespectsOthers never touches what belongs  *)
(* to somebody else and never removes what was there before it, in any     *)
(* call, rollback or repeated cleanup (Worker.process, runCleanupStep),    *)
(* although its names may be taken by others between an execution and its  *)
(* cleanup.                                                                *)
(* The rule RespectsUnmarked says the same of what carries no marker.      *)
THEOREM ForeignAlwaysSpared ==
    Spec => [][/\ RespectsOthers(plugin) => SparesForeign
               /\ RespectsUnmarked(plugin) => SparesUnmarked]_vars
<1>1. Init => ForeignInv
  BY ForeignInit
<1>2. ForeignInv /\ [Next]_vars => ForeignInv'
  <2> SUFFICES ASSUME ForeignInv, [Next]_vars PROVE ForeignInv'
    OBVIOUS
  <2>1. CASE Next
    BY <2>1, ForeignStep
  <2>2. CASE UNCHANGED vars
    <3>1. Script' = Script
      BY <2>2 DEF vars, Script
    <3>2. \A o, x : Guarded(o, x) => Guarded(o, x)'
      BY <2>2, <3>1 DEF vars, Guarded
    <3>3. ASSUME NEW o, NEW x, Spared(o, x) PROVE Spared(o, x)'
      <4>1. Guarded(o, x)'
        BY <3>2, <3>3 DEF Spared
      <4>2. /\ Screened("precheck", o, x)' /\ Screened("cleanupPrecheck", o, x)' /\ Fresh(o, x)'
            /\ (Confined(plugin, o, Others(x)) => world[o] # x)'
        BY <2>2, <3>3, Zenon DEF vars, Spared, Screened, Fresh, Under
      <4> QED BY <4>1, <4>2, Zenon DEF Spared
    <3>4. TypeOK' /\ plugin' = plugin /\ phase' = phase
      BY <2>2 DEF vars, ForeignInv, TypeOK
    <3> QED BY <3>3, <3>4, Zenon DEF ForeignInv
  <2> QED BY <2>1, <2>2
<1>3. ForeignInv /\ [Next]_vars => [/\ RespectsOthers(plugin) => SparesForeign
                                    /\ RespectsUnmarked(plugin) => SparesUnmarked]_vars
  BY ForeignEffect
<1> QED BY <1>1, <1>2, <1>3, PTL DEF Spec

(* The same for a set of plugins of which the known exceptions are left    *)
(* out.                                                                    *)
THEOREM ForeignAlwaysKept ==
    ASSUME \A p \in Names \ Known.foreign : RespectsOthers(p),
           \A p \in Names \ Known.unmarked : RespectsUnmarked(p)
    PROVE  Spec => ForeignKept
<1>1. TypeOK => /\ plugin \notin Known.foreign => RespectsOthers(plugin)
                /\ plugin \notin Known.unmarked => RespectsUnmarked(plugin)
  BY DEF TypeOK
<1>2. TypeOK /\ [/\ RespectsOthers(plugin) => SparesForeign
                 /\ RespectsUnmarked(plugin) => SparesUnmarked]_vars
          => [/\ plugin \notin Known.foreign => SparesForeign
              /\ plugin \notin Known.unmarked => SparesUnmarked]_vars
  <2>1. ASSUME TypeOK, (RespectsOthers(plugin) => SparesForeign) /\ (RespectsUnmarked(plugin) => SparesUnmarked)
        PROVE  /\ plugin \notin Known.foreign => SparesForeign
               /\ plugin \notin Known.unmarked => SparesUnmarked
    BY <1>1, <2>1, Zenon
  <2> QED BY <2>1
<1> QED BY <1>2, StepsTyped, ForeignAlwaysSpared, PTL DEF ForeignKept
(***************************************************************************)
(* A cleanup can always be done                                            *)
(***************************************************************************)

(* Where the objects are, by the outline of the call.                      *)
Follows(A, k) == \A o \in DOMAIN world : world[o] \in A[o][k]

(* A command that is refused without a flaw of the input met an object in  *)
(* a state it does not take.                                               *)
LEMMA RefusedFor ==
    ASSUME TypeOK, Running, flaw = "none", ~ Accepts(Current)
    PROVE  \E b \in Current.on : world[b] \notin Current.ok
<1>1. phase \in Phases \ Resting /\ at \in DOMAIN Script
  BY CurrentIs DEF TypeOK
<1>2. PICK c \in Calls : Script = Plugins[plugin][c]
  BY <1>1, Called DEF TypeOK
<1>3. \A k \in DOMAIN Plugins[plugin][c] : "none" \notin Plugins[plugin][c][k].flaws
  BY ScriptsAssumption DEF TypeOK
<1>4. "none" \notin Current.flaws
  BY <1>1, <1>2, <1>3 DEF Current
<1> QED BY <1>4 DEF Accepts

(* The places of a call and of its outline.                                *)
LEMMA Places ==
    ASSUME TypeOK, phase \in Phases \ Resting
    PROVE  /\ Len(Script) \in Nat /\ DOMAIN Script = 1 .. Len(Script)
           /\ at \in Nat \ {0}
           /\ Running => at \in DOMAIN Script /\ Place(Script, at) = at /\ Place(Script, at + 1) = at + 1
           /\ ~ Running => Place(Script, at) = Len(Script) + 1
<1>1. PICK c \in Calls : Script = Plugins[plugin][c]
  BY Called DEF TypeOK
<1>2. Len(Script) \in Nat /\ DOMAIN Script = 1 .. Len(Script)
  BY <1>1, ScriptsAssumption DEF TypeOK
<1>3. at \in Nat \ {0}
  BY DEF TypeOK
<1> QED BY <1>2, <1>3 DEF Running, Place

(* A command that succeeds follows the outline.                            *)
LEMMA FollowedBySuccess ==
    ASSUME TypeOK, Succeed, NEW A, \A o \in DOMAIN world : Flows(Script, A[o], o),
           phase \in Phases \ Resting, Follows(A, Place(Script, at))
    PROVE  /\ phase' = phase /\ deferred' = deferred
           /\ \A o \in DOMAIN world : world'[o] \in A[o][Place(Script, at')]
<1>1. /\ Running /\ Accepts(Current) /\ Turn(Current, Current.on)
      /\ phase' = phase /\ deferred' = deferred /\ at' = at + 1
  BY DEF Succeed, Advance
<1>2. at \in DOMAIN Script /\ Place(Script, at) = at /\ Place(Script, at') = at + 1
  BY <1>1, Places
<1>3. ASSUME NEW o \in DOMAIN world PROVE world'[o] \in A[o][at + 1]
  <2>1. /\ o \notin Script[at].on => A[o][at] \subseteq A[o][at + 1]
        /\ Takes(Script, at, o, A[o][at], A[o][at + 1])
    BY <1>2 DEF Flows
  <2>2. world[o] \in A[o][at]
    BY <1>2 DEF Follows
  <2>3. CASE o \in Current.on
    <3>1. world[o] \in Current.ok /\ world'[o] = Current.turns[world[o]]
      BY <1>1, <2>3, TurnedFully
    <3> QED BY <2>1, <2>2, <2>3, <3>1 DEF Takes, Current
  <2>4. CASE o \notin Current.on
    <3>1. world'[o] = world[o]
      BY <1>1, <2>4 DEF Turn
    <3> QED BY <2>1, <2>2, <2>4, <3>1 DEF Current
  <2> QED BY <2>3, <2>4
<1> QED BY <1>1, <1>2, <1>3

(* A command that is refused ends the call with something of somebody else *)
(* in its way, or goes on along the outline.                               *)
LEMMA FollowedByRefusal ==
    ASSUME TypeOK, Refuse, flaw = "none", ~ deferred,
           NEW A, \A o \in DOMAIN world : Flows(Script, A[o], o),
           phase \in Phases \ Resting, Follows(A, Place(Script, at))
    PROVE  \/ Enter(OnError) /\ \E o \in DOMAIN world : world[o] \in Foreign
           \/ Enter(OnSuccess) /\ Follows(A, Len(Script) + 1)
           \/ phase' = phase /\ ~ deferred' /\ Follows(A, Place(Script, at'))
<1>1. Running /\ ~ Accepts(Current) /\ Continue(Current.refused, Current) /\ UNCHANGED world
  BY DEF Refuse
<1>2. at \in DOMAIN Script /\ Place(Script, at) = at /\ Place(Script, at + 1) = at + 1
  BY <1>1, Places
<1>3. PICK b \in Current.on : world[b] \notin Current.ok
  BY <1>1, RefusedFor
<1>4. b \in DOMAIN world /\ Current = Script[at]
  BY <1>1, <1>3, CurrentIs DEF Current
<1>5. ASSUME NEW o \in DOMAIN world
      PROVE  /\ world[o] \in Spurned(Script, at, o, A[o][at])
             /\ world[o] \in A[o][at]
  <2>1. world[o] \in A[o][at]
    BY <1>2 DEF Follows
  <2>2. Script[at].on = {o} => world[o] \notin Script[at].ok
    BY <1>3, <1>4
  <2> QED BY <2>1, <2>2 DEF Spurned
<1>6. CASE Current.refused = "fail" /\ Enter(OnError)
  <2>1. A[b][at] \subseteq Current.ok \cup Foreign
    BY <1>2, <1>3, <1>4, <1>6 DEF Flows
  <2>2. world[b] \in Foreign
    BY <1>3, <1>4, <1>5, <2>1
  <2> QED BY <1>4, <1>6, <2>2
<1>7. CASE Current.refused = "return" /\ Enter(OnSuccess)
  <2>1. \A o \in DOMAIN world : Spurned(Script, at, o, A[o][at]) \subseteq A[o][Len(Script) + 1]
    BY <1>2, <1>4, <1>7 DEF Flows
  <2> QED BY <1>5, <1>7, <2>1 DEF Follows
<1>8. CASE Current.refused = "next" /\ Advance(1)
  <2>1. \A o \in DOMAIN world : Spurned(Script, at, o, A[o][at]) \subseteq A[o][at + 1]
    BY <1>2, <1>4, <1>8 DEF Flows
  <2>2. phase' = phase /\ ~ deferred' /\ at' = at + 1
    BY <1>8 DEF Advance
  <2> QED BY <1>2, <1>5, <2>1, <2>2 DEF Follows
<1>9. CASE Current.refused = "jump" /\ Advance(1 + Current.skip)
  <2>1. \A o \in DOMAIN world :
            Spurned(Script, at, o, A[o][at]) \subseteq A[o][Place(Script, at + 1 + Script[at].skip)]
    BY <1>2, <1>4, <1>9 DEF Flows
  <2>2. phase' = phase /\ ~ deferred' /\ at' = at + (1 + Current.skip)
    BY <1>9 DEF Advance
  <2>3. at' = at + 1 + Script[at].skip
    <3>1. Current.skip \in Nat /\ at \in Nat
      BY <1>1, CurrentIs DEF TypeOK
    <3> QED BY <1>4, <2>2, <3>1
  <2> QED BY <1>5, <2>1, <2>2, <2>3 DEF Follows
<1>10. CASE Current.refused = "defer"
  <2>1. A[b][at] \subseteq Current.ok
    BY <1>2, <1>3, <1>4, <1>10 DEF Flows
  <2> QED BY <1>3, <1>4, <1>5, <2>1
<1> QED BY <1>1, <1>6, <1>7, <1>8, <1>9, <1>10 DEF Continue
(* A cleanup of a plugin that has an outline follows it as long as none of *)
(* its commands failed, and has an excuse when it failed.                  *)
Excused == excuse \/ flaw # "none" \/ \E o \in DOMAIN world : world[o] \in Foreign

Clear(Outline) ==
    /\ Follows(Outline["cleanupPrecheck"], 1)
    /\ phase \in Cleaning /\ ~ excuse /\ flaw = "none" =>
          ~ deferred /\ Follows(Outline[phase], Place(Script, at))
    /\ phase = "cleanupFailed" => Excused

ClearInv(Outline) ==
    /\ TypeOK
    /\ phase \in Cleaning \cup {"cleaned", "cleanupFailed"} => Plugins[plugin].cleanable
    /\ Unobstructed(plugin, Outline[plugin]) /\ Plugins[plugin].cleanable => Clear(Outline[plugin])

(* Where the cleaning calls lead.                                          *)
LEMMA CleaningLeads ==
    ASSUME phase \in Cleaning
    PROVE  /\ phase \in Phases \ Resting
           /\ OnError = "cleanupFailed"
           /\ phase = "cleanupPrecheck" => OnSuccess = "cleanup"
           /\ phase = "cleanup" => OnSuccess = "cleanupVerify"
           /\ phase = "cleanupVerify" => OnSuccess = "cleaned"
           /\ Script = Plugins[plugin][phase]
<1>1. phase \in Phases \ Resting
  BY DEF Cleaning, Phases, Resting
<1>2. OnError = "cleanupFailed"
  BY DEF Cleaning, OnError
<1>3. /\ phase = "cleanupPrecheck" => OnSuccess = "cleanup"
      /\ phase = "cleanup" => OnSuccess = "cleanupVerify"
      /\ phase = "cleanupVerify" => OnSuccess = "cleaned"
  BY DEF Cleaning, OnSuccess
<1>4. Script = Plugins[plugin][phase]
  BY <1>1 DEF Cleaning, Script
<1> QED BY <1>1, <1>2, <1>3, <1>4

(* The first place of the outline of a cleaning call that is entered.      *)
LEMMA FirstPlace ==
    ASSUME TypeOK', phase' \in Cleaning, at' = 1
    PROVE  Place(Script', at') = 1
<1>1. Script' = Plugins[plugin'][phase']
  BY DEF Cleaning, Script, Resting
<1>2. phase' \in Calls /\ plugin' \in Names
  BY DEF Cleaning, Calls, TypeOK
<1>3. Len(Script') \in Nat
  BY <1>1, <1>2, ScriptsAssumption
<1> QED BY <1>3 DEF Place

(* A cleaning call without an excuse takes a step along the outline, ends  *)
(* well at its end, or ends with somebody else's object in its way.        *)
LEMMA ClearInCall ==
    ASSUME TypeOK, Next, NEW A, phase \in Cleaning, ~ excuse', flaw = "none", ~ excuse,
           ~ deferred, Follows(A[phase], Place(Script, at)),
           \A o \in DOMAIN world : /\ Flows(Script, A[phase][o], o)
                                   /\ o \in Plugins[plugin].drifts => "absent" \in A[phase][o][1]
    PROVE  \/ phase' = "cleanupFailed" /\ \E o \in DOMAIN world : world'[o] \in Foreign
           \/ Enter(OnSuccess) /\ \A o \in DOMAIN world : world'[o] \in A[phase][o][Len(Script) + 1]
           \/ /\ phase' = phase /\ ~ deferred'
              /\ \A o \in DOMAIN world : world'[o] \in A[phase][o][Place(Script, at')]
<1>0. phase \in Phases \ Resting /\ OnError = "cleanupFailed"
  BY CleaningLeads
<1>1. CASE Succeed
  BY <1>0, <1>1, FollowedBySuccess
<1>2. CASE Refuse
  <2>1. world' = world
    BY <1>2 DEF Refuse
  <2>2. \/ Enter(OnError) /\ \E o \in DOMAIN world : world[o] \in Foreign
        \/ Enter(OnSuccess) /\ Follows(A[phase], Len(Script) + 1)
        \/ phase' = phase /\ ~ deferred' /\ Follows(A[phase], Place(Script, at'))
    BY <1>0, <1>2, FollowedByRefusal
  <2> QED BY <1>0, <2>1, <2>2 DEF Enter, Follows
<1>3. CASE Break \/ Crash
  BY <1>3 DEF Break, Crash
<1>4. CASE Finish
  <2>1. ~ Running /\ Enter(OnSuccess) /\ world' = world
    BY <1>4 DEF Finish
  <2>2. Place(Script, at) = Len(Script) + 1
    BY <1>0, <2>1, Places
  <2> QED BY <2>1, <2>2 DEF Follows
<1>5. CASE Drift
  <2>1. phase' = phase /\ deferred' = deferred /\ at' = at /\ at = 1
    BY <1>5 DEF Drift
  <2>2. Place(Script, at) = 1
    <3>1. Len(Script) \in Nat
      BY <1>0, Places
    <3> QED BY <2>1, <3>1 DEF Place
  <2>3. ASSUME NEW o \in DOMAIN world PROVE world'[o] \in A[phase][o][1]
    <3>1. world[o] \in A[phase][o][1]
      BY <2>2 DEF Follows
    <3> QED BY <1>5, <3>1, DriftOne
  <2> QED BY <2>1, <2>2, <2>3
<1>6. CASE Intrude \/ RequestCleanup
  BY <1>0, <1>6 DEF Intrude, RequestCleanup, Resting
<1> QED BY <1>1, <1>2, <1>3, <1>4, <1>5, <1>6 DEF Next

(* Somebody else's object stays where the step rests.                      *)
LEMMA ExcusedStays ==
    ASSUME TypeOK, Next, phase = "cleanupFailed", phase' = "cleanupFailed", Excused
    PROVE  Excused'
<1>1. Drift \/ Intrude
  <2>1. phase \in Resting
    BY DEF Resting
  <2>2. ~ RequestCleanup
    BY DEF RequestCleanup, Enter
  <2>3. ~ (Succeed \/ Refuse \/ Break \/ Finish \/ Crash)
    BY <2>1, CurrentIs DEF Succeed, Refuse, Break, Finish, Crash
  <2> QED BY <2>2, <2>3 DEF Next
<1>2. excuse' = excuse /\ flaw' = flaw
  BY <1>1 DEF Drift, Intrude
<1>3. ASSUME NEW o \in DOMAIN world, world[o] \in Foreign
      PROVE  o \in DOMAIN world' /\ world'[o] \in Foreign
  <2>1. CASE Drift
    <3>1. PICK d \in Plugins[plugin].drifts : /\ world[d] \in {"own", "changed"}
                                              /\ world' = [world EXCEPT ![d] = "absent"]
      BY <2>1 DEF Drift
    <3>2. o # d
      BY <1>3, <3>1 DEF Foreign
    <3> QED BY <1>3, <3>1, <3>2
  <2>2. CASE Intrude
    <3>1. PICK d \in Plugins[plugin].objects, y \in Foreign :
              /\ world[d] = "absent"
              /\ world' = [world EXCEPT ![d] = y]
      BY <2>2 DEF Intrude
    <3>2. o # d
      BY <1>3, <3>1 DEF Foreign
    <3> QED BY <1>3, <3>1, <3>2
  <2> QED BY <1>1, <2>1, <2>2
<1> QED BY <1>2, <1>3 DEF Excused
(* Every step keeps to the outline or has an excuse.                       *)
LEMMA ClearStep ==
    ASSUME TypeOK, Next, NEW A, Unobstructed(plugin, A), Plugins[plugin].cleanable, Clear(A)
    PROVE  Clear(A)'
<1>0. /\ TypeOK' /\ plugin' = plugin /\ flaw' = flaw
      /\ DOMAIN world = Plugins[plugin].objects /\ DOMAIN world' = DOMAIN world
  BY TypeOKStep, StepIs DEF TypeOK
<1>1. \A o \in DOMAIN world : Confined(plugin, o, A["cleanupPrecheck"][o][1])
  BY <1>0 DEF Unobstructed
<1>1a. \A o \in DOMAIN world : \A c \in Cleaning :
         /\ Flows(Plugins[plugin][c], A[c][o], o)
         /\ o \in Plugins[plugin].drifts => "absent" \in A[c][o][1]
  <2> SUFFICES ASSUME NEW o \in DOMAIN world, NEW c \in Cleaning
               PROVE  /\ Flows(Plugins[plugin][c], A[c][o], o)
                      /\ o \in Plugins[plugin].drifts => "absent" \in A[c][o][1]
    OBVIOUS
  <2>1. o \in Plugins[plugin].objects
    BY <1>0
  <2>2. Flows(Plugins[plugin][c], A[c][o], o)
    BY <2>1, Zenon DEF Unobstructed
  <2>3. o \in Plugins[plugin].drifts => "absent" \in A[c][o][1]
    BY <2>1, SMT DEF Unobstructed
  <2> QED BY <2>2, <2>3
<1>1b. \A o \in DOMAIN world :
         /\ A["cleanupPrecheck"][o][Len(Plugins[plugin].cleanupPrecheck) + 1] \subseteq A["cleanup"][o][1]
         /\ A["cleanup"][o][Len(Plugins[plugin].cleanup) + 1] \subseteq A["cleanupVerify"][o][1]
  BY <1>0, SMT DEF Unobstructed
<1>2. \A o \in DOMAIN world : world'[o] \in A["cleanupPrecheck"][o][1]
  BY <1>1, ConfinedStep DEF Clear, Follows
<1>3. ASSUME phase \in Cleaning, ~ excuse', flaw = "none"
      PROVE  \/ phase' = "cleanupFailed" /\ \E o \in DOMAIN world : world'[o] \in Foreign
             \/ Enter(OnSuccess) /\ \A o \in DOMAIN world : world'[o] \in A[phase][o][Len(Script) + 1]
             \/ /\ phase' = phase /\ ~ deferred'
                /\ \A o \in DOMAIN world : world'[o] \in A[phase][o][Place(Script, at')]
  <2>1. ~ excuse
    <3>1. ~ RequestCleanup
      BY <1>3, CleaningLeads DEF RequestCleanup, Resting
    <3> QED BY <1>3, <3>1 DEF Next, Succeed, Refuse, Break, Finish, Crash, Drift, Intrude
  <2>2. ~ deferred /\ Follows(A[phase], Place(Script, at))
    BY <1>3, <2>1 DEF Clear
  <2>3. \A o \in DOMAIN world : /\ Flows(Script, A[phase][o], o)
                                /\ o \in Plugins[plugin].drifts => "absent" \in A[phase][o][1]
    BY <1>1a, <1>3, CleaningLeads
  <2> QED BY <1>3, <2>1, <2>2, <2>3, ClearInCall
<1>4. ASSUME phase' \in Cleaning, ~ excuse', flaw = "none"
      PROVE  ~ deferred' /\ \A o \in DOMAIN world : world'[o] \in A[phase'][o][Place(Script', at')]
  <2>1. CASE phase' = phase
    <3>1. Script' = Script
      BY <1>0, <2>1 DEF Script
    <3>2. phase \in Cleaning /\ OnSuccess # phase /\ phase' # "cleanupFailed"
      BY <1>4, <2>1, CleaningLeads, PhaseChanges DEF Cleaning
    <3>3. ~ Enter(OnSuccess)
      BY <2>1, <3>2 DEF Enter
    <3> QED BY <1>3, <1>4, <2>1, <3>1, <3>2, <3>3
  <2>2. CASE phase' # phase
    <3>1. phase' \notin Resting /\ phase' # "cleanupFailed"
      BY <1>4 DEF Cleaning, Resting
    <3>2. at' = 1
      BY <2>2, <3>1, EnteredAtFirst
    <3>3. Place(Script', at') = 1
      BY <1>0, <1>4, <3>2, FirstPlace
    <3>4. CASE phase \in Cleaning
      <4>1. Enter(OnSuccess) /\ \A o \in DOMAIN world : world'[o] \in A[phase][o][Len(Script) + 1]
        BY <1>3, <1>4, <2>2, <3>1, <3>4
      <4>2. phase' = OnSuccess /\ ~ deferred' /\ Script = Plugins[plugin][phase]
        BY <3>4, <4>1, CleaningLeads DEF Enter
      <4>3. ASSUME NEW o \in DOMAIN world PROVE world'[o] \in A[phase'][o][1]
        <5>1. CASE phase = "cleanupPrecheck"
          <6>1. phase' = "cleanup" /\ Len(Script) = Len(Plugins[plugin].cleanupPrecheck)
            BY <3>4, <4>2, <5>1, CleaningLeads
          <6> QED BY <1>1b, <4>1, <5>1, <6>1
        <5>2. CASE phase = "cleanup"
          <6>1. phase' = "cleanupVerify" /\ Len(Script) = Len(Plugins[plugin].cleanup)
            BY <3>4, <4>2, <5>2, CleaningLeads
          <6> QED BY <1>1b, <4>1, <5>2, <6>1
        <5>3. CASE phase = "cleanupVerify"
          BY <1>4, <3>4, <4>2, <5>3, CleaningLeads DEF Cleaning
        <5> QED BY <3>4, <5>1, <5>2, <5>3 DEF Cleaning
      <4> QED BY <3>3, <4>2, <4>3
    <3>5. CASE phase \notin Cleaning
      <4>1. RequestCleanup
        <5>1. CASE phase \in Phases \ Resting /\ CallStep
          <6>1. phase' = OnError \/ phase' = OnSuccess
            BY <2>2, <5>1, CallStepPhase DEF Enter
          <6> QED BY <1>4, <3>5, <5>1, <6>1, Leads DEF Cleaning
        <5>2. CASE phase' \in {"failed", "cleanupFailed"}
          BY <1>4, <5>2 DEF Cleaning
        <5>3. CASE Drift \/ Intrude
          BY <2>2, <5>3 DEF Drift, Intrude
        <5> QED BY <5>1, <5>2, <5>3, StepIs
      <4>2. phase' = "cleanupPrecheck" /\ ~ deferred'
        BY <4>1 DEF RequestCleanup, Enter
      <4> QED BY <1>2, <3>3, <4>2
    <3> QED BY <3>4, <3>5
  <2> QED BY <2>1, <2>2
<1>5. ASSUME phase' = "cleanupFailed" PROVE Excused'
  <2>1. CASE phase = "cleanupFailed"
    BY <1>5, <2>1, ExcusedStays DEF Clear
  <2>2. CASE phase # "cleanupFailed"
    <3>1. phase \in Cleaning
      <4>1. CASE phase \in Phases \ Resting /\ CallStep
        <5>1. phase' = OnError \/ phase' = OnSuccess
          BY <1>5, <2>2, <4>1, CallStepPhase DEF Enter
        <5> QED BY <1>5, <4>1, <5>1, Leads
      <4>2. CASE phase' = IF phase \in Cleaning THEN "cleanupFailed" ELSE "failed"
        BY <1>5, <4>2
      <4>3. CASE Drift \/ Intrude
        BY <1>5, <2>2, <4>3 DEF Drift, Intrude
      <4>4. CASE RequestCleanup
        BY <1>5, <4>4 DEF RequestCleanup, Enter
      <4> QED BY <4>1, <4>2, <4>3, <4>4, StepIs
    <3>2. OnSuccess # "cleanupFailed"
      BY <3>1, CleaningLeads, Leads
    <3>3. excuse' \/ flaw # "none" \/ \E o \in DOMAIN world : world'[o] \in Foreign
      BY <1>3, <1>5, <2>2, <3>1, <3>2 DEF Enter
    <3> QED BY <1>0, <3>3 DEF Excused
  <2> QED BY <2>1, <2>2
<1> QED BY <1>0, <1>2, <1>4, <1>5 DEF Clear, Follows

(* A cleanup fails only when one of its commands failed, when its input is *)
(* flawed or when something of somebody else is in its way (Precheck,      *)
(* Cleanup and Verify of a cleanup operation): for every plugin that has   *)
(* an outline, whatever state an execution, a rollback, earlier cleanups   *)
(* and the drift of objects left behind.                                   *)
THEOREM CleanupNeverStuck ==
    ASSUME NEW Outline
    PROVE  Spec => [](Unobstructed(plugin, Outline[plugin]) => CleanupIsNeverStuck)
<1>1. Init => ClearInv(Outline)
  <2> SUFFICES ASSUME Init PROVE ClearInv(Outline)
    OBVIOUS
  <2>1. TypeOK /\ phase = "validate" /\ world \in Plugins[plugin].start
    BY InitTyped DEF Init
  <2>2. phase \notin Cleaning \cup {"cleaned", "cleanupFailed"}
    BY <2>1 DEF Cleaning
  <2>3. ASSUME Unobstructed(plugin, Outline[plugin]), Plugins[plugin].cleanable
        PROVE  Clear(Outline[plugin])
    <3>1. ASSUME NEW o \in DOMAIN world
          PROVE  world[o] \in Outline[plugin]["cleanupPrecheck"][o][1]
      <4>1. o \in Plugins[plugin].objects
        BY <2>1 DEF TypeOK
      <4>2. Confined(plugin, o, Outline[plugin]["cleanupPrecheck"][o][1])
        BY <2>3, <4>1 DEF Unobstructed
      <4> QED BY <2>1, <4>2 DEF Confined
    <3> QED BY <2>2, <3>1 DEF Clear, Follows
  <2> QED BY <2>1, <2>2, <2>3 DEF ClearInv
<1>2. ClearInv(Outline) /\ [Next]_vars => ClearInv(Outline)'
  <2> SUFFICES ASSUME ClearInv(Outline), [Next]_vars PROVE ClearInv(Outline)'
    OBVIOUS
  <2>1. CASE Next
    <3>1. TypeOK /\ TypeOK' /\ plugin' = plugin
      BY <2>1, TypeOKStep, StepIs DEF ClearInv
    <3>2. phase' \in Cleaning \cup {"cleaned", "cleanupFailed"} => Plugins[plugin].cleanable
      BY <2>1, <3>1, CleanableStep DEF ClearInv
    <3>3. PICK A : A = Outline[plugin]
      OBVIOUS
    <3>4. Unobstructed(plugin, A) /\ Plugins[plugin].cleanable => Clear(A)
      BY <3>3 DEF ClearInv
    <3>5. Unobstructed(plugin, A) /\ Plugins[plugin].cleanable => Clear(A)'
      BY <2>1, <3>1, <3>4, ClearStep
    <3>6. Unobstructed(plugin, A)' <=> Unobstructed(plugin, A)
      BY <3>1
    <3> QED BY <3>1, <3>2, <3>3, <3>5, <3>6 DEF ClearInv
  <2>2. CASE UNCHANGED vars
    <3>1. Script' = Script
      BY <2>2 DEF vars, Script
    <3> QED BY <2>2, <3>1 DEF vars, ClearInv, TypeOK, Clear, Follows, Excused
  <2> QED BY <2>1, <2>2
<1>3. ClearInv(Outline) => (Unobstructed(plugin, Outline[plugin]) => CleanupIsNeverStuck)
  BY DEF ClearInv, Clear, Excused, CleanupIsNeverStuck
<1> QED BY <1>1, <1>2, <1>3, PTL DEF Spec
=============================================================================
