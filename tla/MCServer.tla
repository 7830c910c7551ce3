------------------------------- MODULE MCServer -------------------------------
(* One behaviour explores one scenario: which requests come, what they ask,    *)
(* and what else may happen.  Requests of a kind come in one order, the first   *)
(* messages in theirs, as their names do not matter, and two at a time or one   *)
(* by one.                                                                    *)
(* The steps are those of BridgeServer.                                       *)
EXTENDS BridgeServer

CONSTANTS f1, f2, f3, g1, g2, s1, s2, s3, p1, r1, k1, m1, m2, m3, high, on

VARIABLE scenario

MCHandlers == {f1, f2, f3, g1, g2, s1, s2, s3, p1, r1, k1}

Intent(clears, thinking, speed) ==
  [clears |-> clears,
   sets |-> [k \in Knobs |->
     CASE k = "thinkingLevel" -> thinking [] k = "model" -> None [] k = "fastMode" -> speed]]

NoIntent == Intent(<<>>, None, None)
Standard == Intent(<<"thinkingLevel">>, None, standard)
High == Intent(<<>>, high, high)

MCIntents == {NoIntent, Standard, High}

FastOn == [d \in Defaults |-> IF d = "fast" THEN on ELSE None]
BothOff == [d \in Defaults |-> off]

Scenario(requests, asked, others) ==
  [requests |-> requests, asked |-> asked, others |-> others]

Scenarios ==
  {Scenario({<<f1, f2, f3>>}, {}, {"saves"}),
   Scenario({<<f1, f2>>}, {}, {"missing", "saves"}),
   Scenario({<<g1, g2>>}, {FastOn, BothOff}, {"losses"}),
   Scenario({<<g1, g2>>}, {BothOff}, {"configures"}),
   Scenario({<<g1>>}, {FastOn, BothOff}, {"configures", "losses", "no hash"}),
   Scenario({<<g1>>, <<s1>>}, {FastOn, Unasked, NoIntent}, {}),
   Scenario({<<s1, s2>>, <<r1>>}, {NoIntent}, {"deletes"}),
   Scenario({<<s1, s2, s3>>}, {NoIntent}, {"rolls", "one by one"}),
   Scenario({<<s1, s2>>}, {NoIntent}, {"rolls", "losses"}),
   Scenario({<<s1>>, <<p1>>}, {Standard, High}, {}),
   Scenario({<<p1>>, <<k1>>}, {Standard}, {"losses"})}

Happens(what) == what \in scenario.others

Comes(h) ==
  \E kind \in scenario.requests : \E i \in DOMAIN kind :
    /\ kind[i] = h
    /\ \A j \in 1 .. i - 1 :
         /\ reply[kind[j]] # "none"
         /\ reply[kind[j]] = "pending" => j = i - 1 /\ ~Happens("one by one")

Takes(h) == \E kind \in scenario.requests : \E i \in DOMAIN kind : kind[i] = h

MCInit == Init /\ scenario \in Scenarios /\ (file = 0 <=> Happens("missing"))

MCArrives ==
  \/ /\ UNCHANGED chatVars
     /\ \/ \E h \in FileRequests : Comes(h) /\ FileArrives(h)
        \/ \E h \in ConfigRequests :
             /\ Comes(h) /\ ConfigArrives(h)
             /\ change'[h].want \in scenario.asked
  \/ /\ UNCHANGED operatorVars
     /\ \/ \E h \in Sends :
             /\ Comes(h) /\ SendArrives(h)
             /\ m1 \in thread'
             /\ m3 \in thread' \ thread => m2 \in thread
             /\ \E i \in scenario.asked \cap Intents : local'[h].intent = i
        \/ \E h \in Patches :
             /\ Comes(h) /\ PatchArrives(h)
             /\ \E i \in scenario.asked \cap Intents : local'[h].intent = i
        \/ \E h \in Resets \cup Compacts : Comes(h) /\ OtherArrives(h)

(* A patch of the configuration carries the hash of what was read. *)
Hashed(h) ==
  step'[h] = "patch" /\ call'[h].request # None => call'[h].request.baseHash # None

MCNext ==
  /\ \/ MCArrives
     \/ \E h \in Handlers : Takes(h) /\ GoesOn(h)
     \/ \E h \in Handlers : Takes(h) /\ Serves(h)
     \/ ServedLate
     \/ ComesBack /\ UNCHANGED <<operatorVars, chatVars>>
     \/ Happens("saves") /\ OthersSave /\ UNCHANGED chatVars
     \/ /\ Happens("configures") /\ OthersConfigure
        /\ config'["thinking"] = on /\ config'["rest"] = config["rest"]
        /\ UNCHANGED chatVars
     \/ Happens("deletes") /\ Deletes(m1) /\ UNCHANGED operatorVars
     \/ Happens("rolls") /\ Rolls /\ UNCHANGED operatorVars
     \/ /\ Happens("losses")
        /\ \E l \in Handlers : LinkLost(l)
        /\ UNCHANGED <<operatorVars, chatVars>>
  /\ Happens("no hash") \/ \A h \in ConfigRequests : Hashed(h)
  /\ UNCHANGED scenario

MCSpec == MCInit /\ [][MCNext]_<<vars, scenario>> /\ Fairness
=============================================================================
