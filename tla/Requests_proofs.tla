--------------------------- MODULE Requests_proofs ---------------------------
(***************************************************************************)
(* For any names, fields, durations and sequences of calls: a request is   *)
(* refused for a fault of its calls or sent, and carries what was asked.   *)
(* What makes it inductive: each slot of a draft holds what the last call  *)
(* on it said (DraftIsLastCalls), and a bridge was launched as the client  *)
(* would launch it now (LaunchedAsBuilt).                                  *)
(***************************************************************************)
EXTENDS Requests, SequenceTheorems, TLAPS

Kinds == {"agent", "send", "agents", "runs", "messages", "operation", "catalog"}
Runtimes == {"none", "local", "cloud"}

\* A slot is a field, or an entry of a map.
LEMMA SlotIsPair ==
  ASSUME NEW F, NEW M, NEW s \in Slots(F, M)
  PROVE  s = <<s[1], s[2]>>
<1>1. ASSUME NEW A, NEW B, s \in A \X B PROVE s = <<s[1], s[2]>>
  BY <1>1
<1>2. QED
  BY <1>1 DEF Slots

LEMMA SlotsAre ==
  /\ DOMAIN SlotsOf = Kinds /\ DOMAIN RuntimeSlots = Runtimes
  /\ RuntimeSlots["none"] = {}
  /\ RuntimeSlots["local"] = Slots(LocalFields, {"custom_tools"})
  /\ RuntimeSlots["cloud"] = Slots(CloudFields, {"env_vars", "metadata"})
  /\ SlotsOf["agent"] = Slots(AgentFields, AgentMaps)
  /\ SlotsOf["send"] = Slots(SendFields \cup PromptFields, {"mcp_servers", "cloud_env_vars"})
  /\ SlotsOf["agents"] = Slots(ListAgentsFields, {})
  /\ SlotsOf["runs"] = Slots({"limit", "cursor", "runtime"}, {})
  /\ SlotsOf["messages"] = Slots({"limit", "offset", "runtime"}, {})
  /\ SlotsOf["operation"] = {} /\ SlotsOf["catalog"] = {}
BY DEF SlotsOf, RuntimeSlots, Kinds, Runtimes

\* No two builders of an agent's options share a name, and none calls a slot "runtime".
LEMMA NamesDiffer ==
  /\ (AgentFields \cup AgentMaps) \cap (LocalFields \cup {"custom_tools"}) = {}
  /\ (AgentFields \cup AgentMaps) \cap (CloudFields \cup {"env_vars", "metadata"}) = {}
  /\ "runtime" \notin AgentFields \cup AgentMaps \cup LocalFields \cup CloudFields
  /\ {"store", "cwd"} \subseteq LocalFields /\ "env" \in CloudFields
  /\ {"model", "api_key"} \subseteq AgentFields
  /\ {"store", "cwd", "custom_tools", "in_cwd"} \cap (CloudFields \cup AgentFields \cup AgentMaps) = {}
  /\ {"custom_tools", "in_cwd"} \cap LocalFields = {}
  /\ {"store", "custom_tools", "in_cwd", "api_key"} \cap (SendFields \cup PromptFields) = {}
  /\ {"store", "custom_tools"} \cap ListAgentsFields = {}
BY DEF AgentFields, AgentMaps, LocalFields, CloudFields, Bools, SendFields, PromptFields,
   ListAgentsFields

LEMMA SlotFacts ==
  /\ \A r \in Runtimes : SlotsOf["agent"] \cap RuntimeSlots[r] = {}
  /\ \A r \in Runtimes : \A s \in SlotsOf["agent"] \cup RuntimeSlots[r] : s[1] # "runtime"
  /\ <<"cwd", "">> \in RuntimeSlots["local"] /\ <<"cwd", "">> \notin RuntimeSlots["cloud"]
  /\ <<"env", "">> \in RuntimeSlots["cloud"]
<1>1. \A r \in Runtimes : SlotsOf["agent"] \cap RuntimeSlots[r] = {}
  <2>1. SlotsOf["agent"] \cap RuntimeSlots["local"] = {}
    <3> SUFFICES ASSUME NEW s \in SlotsOf["agent"], s \in RuntimeSlots["local"] PROVE FALSE
      OBVIOUS
    <3>1. s[1] \in AgentFields \cup AgentMaps
      BY SlotsAre DEF Slots
    <3>2. s[1] \in LocalFields \cup {"custom_tools"}
      BY SlotsAre DEF Slots
    <3>3. QED
      BY <3>1, <3>2, NamesDiffer
  <2>2. SlotsOf["agent"] \cap RuntimeSlots["cloud"] = {}
    <3> SUFFICES ASSUME NEW s \in SlotsOf["agent"], s \in RuntimeSlots["cloud"] PROVE FALSE
      OBVIOUS
    <3>1. s[1] \in AgentFields \cup AgentMaps
      BY SlotsAre DEF Slots
    <3>2. s[1] \in CloudFields \cup {"env_vars", "metadata"}
      BY SlotsAre DEF Slots
    <3>3. QED
      BY <3>1, <3>2, NamesDiffer
  <2>3. QED
    BY <2>1, <2>2, SlotsAre DEF Runtimes
<1>2. ASSUME NEW r \in Runtimes, NEW s \in SlotsOf["agent"] \cup RuntimeSlots[r]
      PROVE  s[1] # "runtime"
  <2>1. CASE s \in SlotsOf["agent"]
    BY <2>1, SlotsAre, NamesDiffer DEF Slots
  <2>2. CASE s \in RuntimeSlots["local"]
    BY <2>2, SlotsAre, NamesDiffer DEF Slots
  <2>3. CASE s \in RuntimeSlots["cloud"]
    BY <2>3, SlotsAre, NamesDiffer DEF Slots
  <2>4. QED
    BY <2>1, <2>2, <2>3, SlotsAre DEF Runtimes
<1>3. /\ <<"cwd", "">> \in RuntimeSlots["local"]
      /\ <<"env", "">> \in RuntimeSlots["cloud"]
  BY SlotsAre, NamesDiffer DEF Slots
<1>4. <<"cwd", "">> \notin RuntimeSlots["cloud"]
  BY SlotsAre, NamesDiffer DEF Slots
<1>5. QED
  BY <1>1, <1>2, <1>3, <1>4

\* Only a local runtime has tools ...
LEMMA ToolSlots ==
  /\ \A n \in Names : <<"custom_tools", n>> \in RuntimeSlots["local"]
  /\ \A r \in Runtimes : \A s \in SlotsOf["agent"] \cup RuntimeSlots[r] :
       s[1] = "custom_tools" => r = "local" /\ s[2] \in Names /\ s = <<"custom_tools", s[2]>>
  /\ \A k \in Kinds \ {"agent"} : \A s \in SlotsOf[k] : s[1] # "custom_tools"
<1>1. \A n \in Names : <<"custom_tools", n>> \in RuntimeSlots["local"]
  BY SlotsAre DEF Slots
<1>2. ASSUME NEW r \in Runtimes, NEW s \in SlotsOf["agent"] \cup RuntimeSlots[r], s[1] = "custom_tools"
      PROVE  r = "local" /\ s[2] \in Names /\ s = <<"custom_tools", s[2]>>
  <2>1. s \notin Slots(AgentFields, AgentMaps) /\ s \notin Slots(CloudFields, {"env_vars", "metadata"})
    BY <1>2, NamesDiffer DEF Slots
  <2>2. r = "local" /\ s \in Slots(LocalFields, {"custom_tools"})
    BY <1>2, <2>1, SlotsAre DEF Runtimes
  <2>3. s[2] \in Names
    BY <1>2, <2>2, NamesDiffer DEF Slots
  <2>4. s = <<s[1], s[2]>>
    BY <2>2, SlotIsPair
  <2>5. QED
    BY <1>2, <2>2, <2>3, <2>4
<1>3. ASSUME NEW k \in Kinds \ {"agent"}, NEW s \in SlotsOf[k]
      PROVE  s[1] # "custom_tools"
  <2>1. CASE k = "send"
    BY <2>1, SlotsAre, NamesDiffer DEF Slots
  <2>2. CASE k = "agents"
    BY <2>2, SlotsAre, NamesDiffer DEF Slots
  <2>3. CASE k = "runs"
    BY <2>3, SlotsAre DEF Slots
  <2>4. CASE k = "messages"
    BY <2>4, SlotsAre DEF Slots
  <2>5. QED
    BY <2>1, <2>2, <2>3, <2>4, SlotsAre DEF Kinds
<1>4. QED
  BY <1>1, <1>2, <1>3

\* ... and a store; the other slots that Encoded and the refusals name.
LEMMA NamedSlots ==
  /\ <<"store", "">> \in RuntimeSlots["local"]
  /\ \A r \in Runtimes \ {"local"} : <<"store", "">> \notin SlotsOf["agent"] \cup RuntimeSlots[r]
  /\ \A k \in Kinds \ {"agent"} : <<"store", "">> \notin SlotsOf[k]
  /\ <<"model", "">> \in SlotsOf["agent"] /\ <<"api_key", "">> \in SlotsOf["agent"]
  /\ \A k \in {"runs", "messages", "operation", "send", "catalog"} : <<"in_cwd", "">> \notin SlotsOf[k]
  /\ \A r \in Runtimes : <<"in_cwd", "">> \notin SlotsOf["agent"] \cup RuntimeSlots[r]
  /\ <<"api_key", "">> \notin SlotsOf["send"] \cup SlotsOf["catalog"]
<1>1. /\ <<"store", "">> \in RuntimeSlots["local"]
      /\ <<"model", "">> \in SlotsOf["agent"] /\ <<"api_key", "">> \in SlotsOf["agent"]
  BY SlotsAre, NamesDiffer DEF Slots
<1>2. /\ <<"store", "">> \notin SlotsOf["agent"] /\ <<"store", "">> \notin RuntimeSlots["cloud"]
      /\ <<"in_cwd", "">> \notin SlotsOf["agent"] /\ <<"in_cwd", "">> \notin RuntimeSlots["cloud"]
      /\ <<"in_cwd", "">> \notin RuntimeSlots["local"]
  BY SlotsAre, NamesDiffer DEF Slots
<1>3. /\ <<"store", "">> \notin SlotsOf["send"] /\ <<"store", "">> \notin SlotsOf["agents"]
      /\ <<"store", "">> \notin SlotsOf["runs"] /\ <<"store", "">> \notin SlotsOf["messages"]
  BY SlotsAre, NamesDiffer DEF Slots
<1>4. /\ <<"in_cwd", "">> \notin SlotsOf["send"] /\ <<"api_key", "">> \notin SlotsOf["send"]
      /\ <<"in_cwd", "">> \notin SlotsOf["runs"] /\ <<"in_cwd", "">> \notin SlotsOf["messages"]
  BY SlotsAre, NamesDiffer DEF Slots
<1>5. QED
  BY <1>1, <1>2, <1>3, <1>4, SlotsAre DEF Runtimes, Kinds
-------------------------------------------------------------------------------
(* The history of the calls. *)

\* The last of some places, if there is one.
LEMMA LastIs ==
  ASSUME NEW places \in SUBSET Nat, NEW m \in places, \A j \in places : j <= m
  PROVE  (CHOOSE i \in places : \A j \in places : j <= i) = m
<1>1. PICK x : x = CHOOSE i \in places : \A j \in places : j <= i
  OBVIOUS
<1>2. x \in places /\ \A j \in places : j <= x
  BY <1>1
<1>3. x \in Nat /\ m \in Nat /\ x <= m /\ m <= x
  BY <1>2
<1>4. QED
  BY <1>1, <1>3

LEMMA LastExists ==
  ASSUME NEW places, HasLast(places), places # {}
  PROVE  /\ (CHOOSE i \in places : \A j \in places : j <= i) \in places
         /\ \A j \in places : j <= CHOOSE i \in places : \A k \in places : k <= i
BY DEF HasLast

\* A call is the last of the calls.
LEMMA CallEffect ==
  ASSUME NEW C, calls \in Seq(C), NEW c \in C, calls' = Append(calls, c)
  PROVE  /\ Len(calls) \in Nat /\ DOMAIN calls = 1..Len(calls)
         /\ calls' \in Seq(C)
         /\ DOMAIN calls' = (DOMAIN calls) \cup {Len(calls) + 1}
         /\ \A i \in DOMAIN calls : calls'[i] = calls[i] /\ i <= Len(calls)
         /\ calls'[Len(calls) + 1] = c
<1>1. /\ calls' \in Seq(C) /\ Len(calls') = Len(calls) + 1 /\ Len(calls) \in Nat
      /\ calls'[Len(calls) + 1] = c
      /\ \A i \in 1..Len(calls) : calls'[i] = calls[i]
  BY AppendProperties
<1>2. DOMAIN calls = 1..Len(calls) /\ DOMAIN calls' = 1..Len(calls')
  BY <1>1
<1>3. QED
  BY <1>1, <1>2

LEMMA CalledEffect ==
  ASSUME RequestsTypeOK, NEW next, NEW s, NEW v, Called(next, s, v)
  PROVE  /\ draft' = next /\ calls' = Append(calls, [slot |-> s, value |-> v])
         /\ kind' = kind /\ outcome' = outcome /\ wire' = wire
         /\ DOMAIN request' = DOMAIN request
         /\ UNCHANGED <<client, settings, built, registry, launched, agentCwd>>
BY DEF RequestsTypeOK, Called, draft, calls, kind, outcome, wire

\* Where the runtime was picked last, and which one.
LEMMA Picked ==
  ASSUME RequestsTypeOK, DraftIsLastCalls
  PROVE  /\ Len(calls) \in Nat /\ Picks \subseteq 1..Len(calls)
         /\ PickedRuntime \in Runtimes /\ LastPick \in 0..Len(calls)
         /\ Picks # {} => LastPick \in Picks
<1>1. Len(calls) \in Nat /\ Picks \subseteq 1..Len(calls)
  BY DEF RequestsTypeOK, Picks
<1>2. CASE Picks = {}
  BY <1>1, <1>2 DEF LastPick, PickedRuntime, Runtimes
<1>3. CASE Picks # {}
  <2>1. LastPick \in Picks
    BY <1>3, LastExists DEF DraftIsLastCalls, LastPick
  <2>2. QED
    BY <1>1, <1>3, <2>1 DEF DraftIsLastCalls, PickedRuntime, Runtimes
<1>4. QED
  BY <1>2, <1>3

\* A draft has slots of the builders; none of an agent's is called "runtime".
LEMMA DraftSlots ==
  ASSUME RequestsTypeOK, DraftIsLastCalls, NEW s \in DOMAIN draft
  PROVE  s \in AnySlot /\ (kind = "agent" => s[1] # "runtime")
<1>1. CASE kind = "agent"
  <2>1. s \in SlotsOf["agent"] \cup RuntimeSlots[PickedRuntime] /\ PickedRuntime \in Runtimes
    BY <1>1, Picked DEF DraftIsLastCalls
  <2>2. QED
    BY <2>1, SlotFacts, SlotsAre DEF AnySlot, Kinds
<1>2. CASE kind # "agent"
  <2>1. kind \in Kinds /\ s \in SlotsOf[kind]
    BY <1>2, SlotsAre DEF DraftIsLastCalls, RequestsTypeOK
  <2>2. QED
    BY <1>2, <2>1, SlotsAre DEF AnySlot
<1>3. QED
  BY <1>1, <1>2

\* The history says the same as long as nothing of it changes.
LEMMA HistoryStutter ==
  ASSUME DraftIsLastCalls, kind' = kind, draft' = draft, calls' = calls
  PROVE  DraftIsLastCalls' /\ \A x : Asked(x)' = Asked(x)
<1>1. Picks' = Picks
  BY DEF Picks
<1>2. LastPick' = LastPick
  BY <1>1 DEF LastPick
<1>3. PickedRuntime' = PickedRuntime
  BY <1>1, <1>2 DEF PickedRuntime
<1>4. \A x : CallsOf(x)' = CallsOf(x)
  BY <1>2 DEF CallsOf, OfRuntime
<1>5. ASSUME NEW x PROVE Asked(x)' = Asked(x)
  <2>1. CallsOf(x)' = CallsOf(x)
    BY <1>4
  <2>2. QED
    BY <2>1 DEF Asked
<1>6. QED
  BY <1>1, <1>3, <1>4, <1>5 DEF DraftIsLastCalls, HasLast

LEMMA SetSlotStep ==
  ASSUME RequestsTypeOK, DraftIsLastCalls, NEW s \in DOMAIN draft, NEW v \in Values, SetSlot(s, v)
  PROVE  DraftIsLastCalls'
<1> DEFINE n == Len(calls) + 1
           C == [slot : AnySlot, value : Values]
           c == [slot |-> s, value |-> v]
<1>1. /\ draft' = [draft EXCEPT ![s] = v] /\ calls' = Append(calls, c) /\ kind' = kind
  BY CalledEffect DEF SetSlot
<1>2. s \in AnySlot /\ (kind = "agent" => s[1] # "runtime") /\ c \in C
  BY DraftSlots
<1>3. /\ Len(calls) \in Nat /\ DOMAIN calls = 1..Len(calls)
      /\ DOMAIN calls' = (DOMAIN calls) \cup {n} /\ calls'[n] = c
      /\ \A i \in DOMAIN calls : calls'[i] = calls[i] /\ i <= Len(calls) /\ i # n
  BY <1>1, <1>2, CallEffect DEF RequestsTypeOK
<1>4. calls'[n].slot = s /\ calls'[n].value = v
  BY <1>3
<1> HIDE DEF n, C, c
<1>5. Picks' = Picks
  BY <1>1, <1>2, <1>3, <1>4 DEF Picks
<1>6. LastPick' = LastPick /\ n > LastPick /\ n \in Nat
  BY <1>3, <1>5, Picked DEF LastPick, n
<1>7. PickedRuntime' = PickedRuntime
  BY <1>3, <1>5, <1>6, Picked DEF PickedRuntime
<1>8. \A x : (x # s => CallsOf(x)' = CallsOf(x)) /\ (x = s => CallsOf(x)' = CallsOf(x) \cup {n})
  BY <1>1, <1>3, <1>4, <1>6 DEF CallsOf, OfRuntime
<1>9. ASSUME NEW x \in DOMAIN draft, x # s
      PROVE  HasLast(CallsOf(x)') /\ Asked(x)' = Asked(x)
  <2>1. CallsOf(x)' = CallsOf(x) /\ HasLast(CallsOf(x)) /\ CallsOf(x) \subseteq DOMAIN calls
    BY <1>8, <1>9 DEF DraftIsLastCalls, CallsOf
  <2>2. CASE CallsOf(x) = {}
    BY <2>1, <2>2 DEF Asked
  <2>3. CASE CallsOf(x) # {}
    <3>1. (CHOOSE i \in CallsOf(x) : \A j \in CallsOf(x) : j <= i) \in DOMAIN calls
      BY <2>1, <2>3, LastExists
    <3>2. QED
      BY <1>3, <2>1, <2>3, <3>1 DEF Asked
  <2>4. QED
    BY <2>2, <2>3
<1>10. HasLast(CallsOf(s)') /\ Asked(s)' = v
  <2>1. /\ CallsOf(s)' \in SUBSET Nat /\ n \in CallsOf(s)'
        /\ \A j \in CallsOf(s)' : j <= n
    BY <1>3, <1>6, <1>8 DEF CallsOf, n
  <2>2. (CHOOSE i \in CallsOf(s)' : \A j \in CallsOf(s)' : j <= i) = n
    BY <2>1, LastIs
  <2>3. QED
    BY <1>4, <2>1, <2>2 DEF Asked, HasLast
<1>11. DOMAIN draft' = DOMAIN draft /\ \A x \in DOMAIN draft : draft'[x] = IF x = s THEN v ELSE draft[x]
  BY <1>1
<1>12. \A x \in DOMAIN draft' : HasLast(CallsOf(x)') /\ draft'[x] = Asked(x)'
  BY <1>9, <1>10, <1>11 DEF DraftIsLastCalls
<1>13. \A x \in AnySlot \ DOMAIN draft' : CallsOf(x)' = {}
  BY <1>8, <1>11 DEF DraftIsLastCalls
<1>14. HasLast(Picks') /\ \A i \in Picks' : calls'[i].slot[2] \in {"local", "cloud"}
  BY <1>3, <1>5, Picked DEF DraftIsLastCalls
<1>15. QED
  BY <1>1, <1>7, <1>11, <1>12, <1>13, <1>14 DEF DraftIsLastCalls, HasLast

LEMMA SetRuntimeStep ==
  ASSUME RequestsTypeOK, DraftIsLastCalls, NEW r \in {"local", "cloud"}, SetRuntime(r)
  PROVE  DraftIsLastCalls'
<1> DEFINE n == Len(calls) + 1
           C == [slot : AnySlot, value : Values]
           c == [slot |-> <<"runtime", r>>, value |-> "full"]
           next == [s \in SlotsOf["agent"] \cup RuntimeSlots[r] |->
                      IF s \in SlotsOf["agent"] THEN draft[s] ELSE "unset"]
<1>1. kind = "agent" /\ draft' = next /\ calls' = Append(calls, c) /\ kind' = kind
  BY CalledEffect DEF SetRuntime
<1>2. c \in C
  BY DEF AnySlot, Values
<1>3. /\ Len(calls) \in Nat /\ DOMAIN calls = 1..Len(calls)
      /\ DOMAIN calls' = (DOMAIN calls) \cup {n} /\ calls'[n] = c
      /\ \A i \in DOMAIN calls : calls'[i] = calls[i] /\ i <= Len(calls) /\ i # n
  BY <1>1, <1>2, CallEffect DEF RequestsTypeOK
<1>4. calls'[n].slot = <<"runtime", r>> /\ calls'[n].slot[1] = "runtime" /\ calls'[n].slot[2] = r
  BY <1>3
<1>5. DOMAIN draft' = SlotsOf["agent"] \cup RuntimeSlots[r]
      /\ \A x \in DOMAIN draft' : draft'[x] = IF x \in SlotsOf["agent"] THEN draft[x] ELSE "unset"
  BY <1>1
<1>6. n \in Nat /\ \A i \in DOMAIN calls' : i \in Nat /\ i <= n
  BY <1>3
<1> HIDE DEF n, C, c, next
<1>7. Picks' = Picks \cup {n} /\ Picks' \subseteq DOMAIN calls'
  BY <1>1, <1>3, <1>4 DEF Picks
<1>8. LastPick' = n /\ HasLast(Picks')
  <2>1. (CHOOSE i \in Picks' : \A j \in Picks' : j <= i) = n
    BY <1>6, <1>7, LastIs
  <2>2. QED
    BY <1>6, <1>7, <2>1 DEF LastPick, HasLast
<1>9. PickedRuntime' = r
  BY <1>4, <1>7, <1>8 DEF PickedRuntime
<1>10. \A i \in Picks' : calls'[i].slot[2] \in {"local", "cloud"}
  BY <1>3, <1>4, <1>7 DEF DraftIsLastCalls, Picks
<1>11. ASSUME NEW x, x \notin SlotsOf["agent"]
       PROVE  CallsOf(x)' = {}
  <2>1. \A i \in DOMAIN calls' : ~(i > n)
    BY <1>6
  <2>2. QED
    BY <1>1, <1>8, <1>11, <2>1 DEF CallsOf, OfRuntime
<1>12. ASSUME NEW x \in SlotsOf["agent"]
       PROVE  CallsOf(x)' = CallsOf(x) /\ HasLast(CallsOf(x)) /\ draft[x] = Asked(x) /\ Asked(x)' = Asked(x)
  <2>1. x[1] # "runtime"
    BY SlotFacts DEF Runtimes
  <2>2. CallsOf(x)' = CallsOf(x) /\ CallsOf(x) \subseteq DOMAIN calls
    BY <1>3, <1>4, <1>12, <2>1 DEF CallsOf, OfRuntime
  <2>3. HasLast(CallsOf(x)) /\ draft[x] = Asked(x)
    BY <1>1, <1>12 DEF DraftIsLastCalls
  <2>4. CASE CallsOf(x) = {}
    BY <2>2, <2>3, <2>4 DEF Asked
  <2>5. CASE CallsOf(x) # {}
    <3>1. (CHOOSE i \in CallsOf(x) : \A j \in CallsOf(x) : j <= i) \in DOMAIN calls
      BY <2>2, <2>3, <2>5, LastExists
    <3>2. QED
      BY <1>3, <2>2, <2>3, <2>5, <3>1 DEF Asked
  <2>6. QED
    BY <2>4, <2>5
<1>13. \A x \in DOMAIN draft' : HasLast(CallsOf(x)') /\ draft'[x] = Asked(x)'
  <2>1. ASSUME NEW x \in DOMAIN draft', x \notin SlotsOf["agent"]
        PROVE  HasLast(CallsOf(x)') /\ draft'[x] = Asked(x)'
    BY <1>5, <1>11, <2>1 DEF Asked, HasLast
  <2>2. ASSUME NEW x \in DOMAIN draft', x \in SlotsOf["agent"]
        PROVE  HasLast(CallsOf(x)') /\ draft'[x] = Asked(x)'
    BY <1>5, <1>12, <2>2
  <2>3. QED
    BY <2>1, <2>2
<1>14. \A x \in AnySlot \ DOMAIN draft' : CallsOf(x)' = {}
  BY <1>5, <1>11
<1>15. QED
  BY <1>1, <1>5, <1>8, <1>9, <1>10, <1>13, <1>14 DEF DraftIsLastCalls, HasLast

\* A fresh draft, before any call on it.
LEMMA FreshDraft ==
  ASSUME NEW k \in Kinds \cup {"none"},
         kind' = k, calls' = <<>>,
         draft' = Unset(IF k = "none" THEN {} ELSE SlotsOf[k])
  PROVE  DraftIsLastCalls'
<1>1. DOMAIN calls' = {}
  OBVIOUS
<1>2. Picks' = {} /\ PickedRuntime' = "none" /\ \A x : CallsOf(x)' = {}
  BY <1>1 DEF Picks, PickedRuntime, CallsOf
<1>3. \A x : Asked(x)' = "unset"
  BY <1>2 DEF Asked
<1>4. SlotsOf["agent"] \cup RuntimeSlots["none"] = SlotsOf["agent"]
  BY SlotsAre
<1>5. DOMAIN draft' = (IF k = "none" THEN {} ELSE SlotsOf[k]) /\ \A x \in DOMAIN draft' : draft'[x] = "unset"
  BY DEF Unset
<1>6. DOMAIN draft' = IF kind' = "none" THEN {} ELSE IF kind' = "agent"
                      THEN SlotsOf["agent"] \cup RuntimeSlots[PickedRuntime'] ELSE SlotsOf[kind']
  BY <1>2, <1>4, <1>5
<1>7. QED
  BY <1>1, <1>2, <1>3, <1>5, <1>6 DEF DraftIsLastCalls, HasLast
-------------------------------------------------------------------------------
(* The invariant. *)

LEMMA AskedIn ==
  ASSUME RequestsTypeOK, NEW s, HasLast(CallsOf(s))
  PROVE  Asked(s) \in Values \cup {"unset"}
<1>1. CASE CallsOf(s) = {}
  BY <1>1 DEF Asked
<1>2. CASE CallsOf(s) # {}
  <2>1. PICK i \in DOMAIN calls : Asked(s) = calls[i].value
    BY <1>2, LastExists DEF Asked, CallsOf
  <2>2. calls \in Seq([slot : AnySlot, value : Values]) /\ i \in 1..Len(calls)
    BY <2>1 DEF RequestsTypeOK
  <2>3. calls[i] \in [slot : AnySlot, value : Values]
    BY <2>1, <2>2, ElementOfSeq
  <2>4. QED
    BY <2>1, <2>3
<1>3. QED
  BY <1>1, <1>2

\* What a draft says of a slot, unset outside of it, is what was asked.
LEMMA ValueIsAsked ==
  ASSUME RequestsTypeOK, DraftIsLastCalls, NEW s \in AnySlot
  PROVE  Value(s) = Asked(s) /\ Value(s) \in Values \cup {"unset"}
<1>1. CASE s \in DOMAIN draft
  <2>1. HasLast(CallsOf(s)) /\ draft[s] = Asked(s)
    BY <1>1 DEF DraftIsLastCalls
  <2>2. QED
    BY <1>1, <2>1, AskedIn DEF Value
<1>2. CASE s \notin DOMAIN draft
  <2>1. CallsOf(s) = {}
    BY <1>2 DEF DraftIsLastCalls
  <2>2. QED
    BY <1>2, <2>1 DEF Value, Asked
<1>3. QED
  BY <1>1, <1>2

LEMMA NamedInAnySlot ==
  /\ <<"store", "">> \in AnySlot /\ <<"cwd", "">> \in AnySlot
  /\ <<"model", "">> \in AnySlot /\ <<"api_key", "">> \in AnySlot
  /\ \A n \in Names : <<"custom_tools", n>> \in AnySlot
<1>1. \A s \in RuntimeSlots["local"] \cup SlotsOf["agent"] : s \in AnySlot
  BY SlotsAre DEF AnySlot, Kinds, Runtimes
<1>2. QED
  BY <1>1, NamedSlots, SlotFacts, ToolSlots

LEMMA TypeInit == RequestsInit => RequestsTypeOK
<1> SUFFICES ASSUME RequestsInit PROVE RequestsTypeOK
  OBVIOUS
<1>1. kind = "none" /\ calls = <<>> /\ DOMAIN request = {"kind", "draft", "calls", "outcome", "wire"}
  BY DEF RequestsInit, Fresh, kind, calls
<1>2. client \in [store : BOOLEAN, local_store : {"unset", "sqlite", "custom"}, attach : BOOLEAN,
                  api_key : {"unset", "empty", "full"}, grace : Nat, timeout : Nat]
  <2>1. client \in [store : {FALSE}, local_store : {"unset"}, attach : {FALSE},
                    api_key : {"unset", "full"}, grace : {0}, timeout : {10}]
    BY DEF RequestsInit
  <2>2. {FALSE} \subseteq BOOLEAN /\ {0} \subseteq Nat /\ {10} \subseteq Nat
    OBVIOUS
  <2>3. QED
    BY <2>1, <2>2
<1>3. registry \in [Names -> {"unset", "empty", "full"}]
  BY DEF RequestsInit
<1>4. calls \in Seq([slot : AnySlot, value : Values])
  BY <1>1
<1>5. settings \in Nat /\ built \in BOOLEAN /\ agentCwd = "unset"
  BY DEF RequestsInit
<1>6. QED
  BY <1>1, <1>2, <1>3, <1>4, <1>5 DEF RequestsTypeOK

\* Settings of the client leave its type.
LEMMA SettingType ==
  ASSUME RequestsTypeOK,
         SetAgentStore \/ SetLocalStore \/ SetEndpoint \/ SetApiKey \/ SetGrace \/ SetTimeout
  PROVE  RequestsTypeOK' /\ ~built /\ UNCHANGED <<built, launched, request>>
<1> DEFINE CT == [store : BOOLEAN, local_store : {"unset", "sqlite", "custom"}, attach : BOOLEAN,
                  api_key : {"unset", "empty", "full"}, grace : Nat, timeout : Nat]
<1>1. ASSUME NEW next \in CT, Setting(next)
      PROVE  RequestsTypeOK' /\ ~built /\ UNCHANGED <<built, launched, request>>
  BY <1>1 DEF Setting, RequestsTypeOK, kind, calls
<1>2. client \in CT
  BY DEF RequestsTypeOK
<1>3. CASE SetAgentStore
  <2>1. [client EXCEPT !.store = TRUE, !.local_store = "custom"] \in CT
    BY <1>2
  <2>2. QED
    BY <1>1, <1>3, <2>1 DEF SetAgentStore
<1>4. CASE SetLocalStore
  <2>1. \A s \in {"sqlite", "custom"} : [client EXCEPT !.local_store = s] \in CT
    BY <1>2
  <2>2. QED
    BY <1>1, <1>4, <2>1 DEF SetLocalStore
<1>5. CASE SetEndpoint
  <2>1. [client EXCEPT !.attach = TRUE] \in CT
    BY <1>2
  <2>2. QED
    BY <1>1, <1>5, <2>1 DEF SetEndpoint
<1>6. CASE SetApiKey
  <2>1. \A v \in {"empty", "full"} : [client EXCEPT !.api_key = v] \in CT
    BY <1>2
  <2>2. QED
    BY <1>1, <1>6, <2>1 DEF SetApiKey
<1>7. CASE SetGrace
  <2>1. \A d \in Durations : [client EXCEPT !.grace = d] \in CT
    BY <1>2, RequestsAssumption
  <2>2. QED
    BY <1>1, <1>7, <2>1 DEF SetGrace
<1>8. CASE SetTimeout
  <2>1. \A d \in Durations : [client EXCEPT !.timeout = d] \in CT
    BY <1>2, RequestsAssumption
  <2>2. QED
    BY <1>1, <1>8, <2>1 DEF SetTimeout
<1>9. QED
  BY <1>3, <1>4, <1>5, <1>6, <1>7, <1>8

\* Only an Ask answers a request; what its refusal or its success leaves.
LEMMA AskEffect ==
  ASSUME RequestsTypeOK, Ask
  PROVE  /\ kind # "none" /\ outcome = "none" /\ outcome' # "none"
         /\ kind' = kind /\ draft' = draft /\ calls' = calls
         /\ DOMAIN request' = DOMAIN request
         /\ UNCHANGED <<client, settings, built, registry>>
         /\ LET cause == IF Refusal # "none" THEN Refusal
                         ELSE IF ~Connected THEN LaunchRefusal ELSE "none"
            IN \/ /\ cause # "none" /\ outcome' = cause
                  /\ wire' = wire /\ UNCHANGED <<launched, agentCwd>>
               \/ /\ cause = "none" /\ outcome' = "sent" /\ wire' = Encoded
                  /\ launched' = IF Connected THEN launched ELSE Launch
                  /\ agentCwd' = IF kind = "agent" THEN Value(<<"cwd", "">>) ELSE agentCwd
<1> DEFINE cause == IF Refusal # "none" THEN Refusal
                    ELSE IF ~Connected THEN LaunchRefusal ELSE "none"
<1>1. DOMAIN request = {"kind", "draft", "calls", "outcome", "wire"}
  BY DEF RequestsTypeOK
<1>2. /\ kind # "none" /\ outcome = "none"
      /\ IF cause # "none"
         THEN request' = [request EXCEPT !.outcome = cause] /\ UNCHANGED <<launched, agentCwd>>
         ELSE /\ request' = [request EXCEPT !.outcome = "sent", !.wire = Encoded]
              /\ launched' = IF Connected THEN launched ELSE Launch
              /\ agentCwd' = IF kind = "agent" THEN Value(<<"cwd", "">>) ELSE agentCwd
      /\ UNCHANGED <<client, settings, built, registry>>
  BY DEF Ask
<1> HIDE DEF cause
<1>3. CASE cause # "none"
  <2>1. /\ request' = [request EXCEPT !.outcome = cause] /\ UNCHANGED <<launched, agentCwd>>
    BY <1>2, <1>3
  <2>2. /\ kind' = kind /\ draft' = draft /\ calls' = calls /\ wire' = wire /\ outcome' = cause
        /\ DOMAIN request' = DOMAIN request
    BY <1>1, <2>1 DEF kind, draft, calls, wire, outcome
  <2>3. QED
    BY <1>2, <1>3, <2>1, <2>2 DEF cause
<1>4. CASE cause = "none"
  <2>1. request' = [request EXCEPT !.outcome = "sent", !.wire = Encoded]
    BY <1>2, <1>4
  <2>2. /\ kind' = kind /\ draft' = draft /\ calls' = calls /\ wire' = Encoded /\ outcome' = "sent"
        /\ DOMAIN request' = DOMAIN request
    BY <1>1, <2>1 DEF kind, draft, calls, wire, outcome
  <2>3. QED
    BY <1>2, <1>4, <2>2 DEF cause
<1>5. QED
  BY <1>3, <1>4

LEMMA CalledType ==
  ASSUME RequestsTypeOK, NEW next, NEW s \in AnySlot, NEW v \in Values, Called(next, s, v)
  PROVE  RequestsTypeOK'
<1>1. /\ calls' = Append(calls, [slot |-> s, value |-> v]) /\ kind' = kind
      /\ DOMAIN request' = DOMAIN request
      /\ UNCHANGED <<client, settings, built, registry, launched, agentCwd>>
  BY CalledEffect
<1>2. calls' \in Seq([slot : AnySlot, value : Values])
  <2>1. calls \in Seq([slot : AnySlot, value : Values])
    BY DEF RequestsTypeOK
  <2>2. [slot |-> s, value |-> v] \in [slot : AnySlot, value : Values]
    OBVIOUS
  <2>3. QED
    BY <1>1, <2>1, <2>2, AppendProperties
<1>3. QED
  BY <1>1, <1>2 DEF RequestsTypeOK

\* Some handler's step, for a draft and for the rest.
LEMMA DraftingStep ==
  ASSUME RequestsTypeOK, DraftIsLastCalls,
         \/ \E r \in {"local", "cloud"} : SetRuntime(r)
         \/ \E s \in DOMAIN draft : \E v \in ValuesOf(s[1]) : SetSlot(s, v)
  PROVE  /\ RequestsTypeOK' /\ DraftIsLastCalls' /\ outcome' = outcome /\ kind' = kind
         /\ UNCHANGED <<client, built, launched>>
<1>1. ASSUME NEW r \in {"local", "cloud"}, SetRuntime(r)
      PROVE  /\ RequestsTypeOK' /\ DraftIsLastCalls' /\ outcome' = outcome /\ kind' = kind
             /\ UNCHANGED <<client, built, launched>>
  <2>1. PICK next : Called(next, <<"runtime", r>>, "full")
    BY <1>1 DEF SetRuntime
  <2>2. <<"runtime", r>> \in AnySlot /\ "full" \in Values
    BY DEF AnySlot, Values
  <2>3. QED
    BY <1>1, <2>1, <2>2, CalledType, CalledEffect, SetRuntimeStep
<1>2. ASSUME NEW s \in DOMAIN draft, NEW v \in ValuesOf(s[1]), SetSlot(s, v)
      PROVE  /\ RequestsTypeOK' /\ DraftIsLastCalls' /\ outcome' = outcome /\ kind' = kind
             /\ UNCHANGED <<client, built, launched>>
  <2>1. s \in AnySlot /\ v \in Values
    BY DraftSlots DEF ValuesOf, Values
  <2>2. PICK next : Called(next, s, v)
    BY <1>2 DEF SetSlot
  <2>3. QED
    BY <1>2, <2>1, <2>2, CalledType, CalledEffect, SetSlotStep
<1>3. QED
  BY <1>1, <1>2

LEMMA StartDraftStep ==
  ASSUME RequestsTypeOK, NEW k \in Kinds, StartDraft(k)
  PROVE  /\ RequestsTypeOK' /\ DraftIsLastCalls' /\ outcome' = "none" /\ built
         /\ UNCHANGED <<client, built, launched>>
<1>1. /\ request' = Fresh(k, SlotsOf[k]) /\ built
      /\ UNCHANGED <<client, settings, built, registry, launched, agentCwd>>
  BY DEF StartDraft
<1>2. /\ kind' = k /\ calls' = <<>> /\ outcome' = "none" /\ draft' = Unset(SlotsOf[k])
      /\ DOMAIN request' = {"kind", "draft", "calls", "outcome", "wire"}
  BY <1>1 DEF Fresh, kind, calls, outcome, draft
<1>3. DraftIsLastCalls'
  BY <1>2, FreshDraft DEF Kinds
<1>4. calls' \in Seq([slot : AnySlot, value : Values])
  BY <1>2
<1>5. QED
  BY <1>1, <1>2, <1>3, <1>4, SlotsAre DEF RequestsTypeOK

\* What touches no draft.
LEMMA OtherStep ==
  ASSUME RequestsTypeOK, DraftIsLastCalls,
         Build \/ UseHandle \/ RegisterTool \/ UnregisterTool \/ ShareRegistry
  PROVE  /\ RequestsTypeOK' /\ DraftIsLastCalls' /\ outcome' = outcome /\ kind' = kind
         /\ (built => built') /\ UNCHANGED <<client, launched>>
<1>1. /\ request' = request /\ UNCHANGED <<client, launched, settings>>
      /\ built' \in BOOLEAN /\ (built => built')
  BY DEF Build, UseHandle, RegisterTool, UnregisterTool, ShareRegistry, Registry, RequestsTypeOK
<1>2. registry' \in [Names -> {"unset", "empty", "full"}]
  BY DEF Build, UseHandle, RegisterTool, UnregisterTool, ShareRegistry, Registry, RequestsTypeOK
<1>3. agentCwd' \in Values \cup {"unset"}
  BY DEF Build, UseHandle, RegisterTool, UnregisterTool, ShareRegistry, Registry, RequestsTypeOK
<1>4. kind' = kind /\ draft' = draft /\ calls' = calls /\ outcome' = outcome
  BY <1>1 DEF kind, draft, calls, outcome
<1>5. QED
  BY <1>1, <1>2, <1>3, <1>4, HistoryStutter DEF RequestsTypeOK

LEMMA AskStep ==
  ASSUME RequestsTypeOK, DraftIsLastCalls, LaunchedAsBuilt, Ask
  PROVE  RequestsTypeOK' /\ DraftIsLastCalls' /\ LaunchedAsBuilt'
<1>1. /\ kind' = kind /\ draft' = draft /\ calls' = calls /\ DOMAIN request' = DOMAIN request
      /\ UNCHANGED <<client, settings, built, registry>> /\ kind # "none"
  BY AskEffect
<1>2. agentCwd' \in Values \cup {"unset"}
  BY AskEffect, ValueIsAsked, NamedInAnySlot DEF RequestsTypeOK
<1>3. RequestsTypeOK'
  BY <1>1, <1>2 DEF RequestsTypeOK
<1>4. DraftIsLastCalls'
  BY <1>1, HistoryStutter
<1>5. Launch' = Launch /\ LaunchRefusal' = LaunchRefusal /\ Launch.is # "none"
  BY <1>1 DEF Launch, LaunchRefusal, NoBridge
<1>6. \/ launched' = launched
      \/ ~Connected /\ launched' = Launch /\ LaunchRefusal = "none"
  BY AskEffect
<1>7. LaunchedAsBuilt'
  BY <1>1, <1>5, <1>6 DEF LaunchedAsBuilt, Connected
<1>8. QED
  BY <1>3, <1>4, <1>7

\* Every initial state and every step.
LEMMA InvariantInit == RequestsInit => RequestsInv
<1> SUFFICES ASSUME RequestsInit PROVE RequestsInv
  OBVIOUS
<1>1. /\ kind = "none" /\ calls = <<>> /\ draft = Unset({}) /\ launched = NoBridge
  BY DEF RequestsInit, Fresh, kind, calls, draft
<1>2. DraftIsLastCalls
  BY <1>1, SlotsAre DEF DraftIsLastCalls, Picks, CallsOf, HasLast, Unset
<1>3. LaunchedAsBuilt
  BY <1>1 DEF LaunchedAsBuilt, Connected, NoBridge
<1>4. QED
  BY <1>2, <1>3, TypeInit DEF RequestsInv

LEMMA InvariantStep == RequestsInv /\ [RequestsNext]_requestVars => RequestsInv'
<1> SUFFICES ASSUME RequestsTypeOK, DraftIsLastCalls, LaunchedAsBuilt, [RequestsNext]_requestVars
             PROVE  RequestsTypeOK' /\ DraftIsLastCalls' /\ LaunchedAsBuilt'
  BY DEF RequestsInv
<1>1. ASSUME UNCHANGED <<client, launched>>, built => built', (kind' # "none") => (kind # "none" \/ built')
      PROVE  LaunchedAsBuilt'
  <2>1. Launch' = Launch /\ LaunchRefusal' = LaunchRefusal
    BY <1>1 DEF Launch, LaunchRefusal
  <2>2. QED
    BY <1>1, <2>1 DEF LaunchedAsBuilt, Connected, RequestsTypeOK
<1>2. CASE SetAgentStore \/ SetLocalStore \/ SetEndpoint \/ SetApiKey \/ SetGrace \/ SetTimeout
  <2>1. RequestsTypeOK' /\ ~built /\ UNCHANGED <<built, launched, request>>
    BY <1>2, SettingType
  <2>2. kind' = kind /\ draft' = draft /\ calls' = calls
    BY <2>1 DEF kind, draft, calls
  <2>3. LaunchedAsBuilt'
    BY <2>1, <2>2 DEF LaunchedAsBuilt, Connected
  <2>4. QED
    BY <2>1, <2>2, <2>3, HistoryStutter
<1>3. CASE Build \/ UseHandle \/ RegisterTool \/ UnregisterTool \/ ShareRegistry
  BY <1>1, <1>3, OtherStep
<1>4. CASE Ask
  BY <1>4, AskStep
<1>5. ASSUME NEW k \in DOMAIN SlotsOf, StartDraft(k)
      PROVE  RequestsTypeOK' /\ DraftIsLastCalls' /\ LaunchedAsBuilt'
  BY <1>1, <1>5, StartDraftStep, SlotsAre
<1>6. CASE \/ \E r \in {"local", "cloud"} : SetRuntime(r)
           \/ \E s \in DOMAIN draft : \E v \in ValuesOf(s[1]) : SetSlot(s, v)
  BY <1>1, <1>6, DraftingStep
<1>7. CASE UNCHANGED requestVars
  <2>1. kind' = kind /\ draft' = draft /\ calls' = calls
    BY <1>7 DEF requestVars, kind, draft, calls
  <2>2. QED
    BY <1>1, <1>7, <2>1, HistoryStutter DEF requestVars, RequestsTypeOK
<1>8. QED
  BY <1>2, <1>3, <1>4, <1>5, <1>6, <1>7 DEF RequestsNext

THEOREM Invariance == RequestsSpec => []RequestsInv
<1>1. QED
  BY InvariantInit, InvariantStep, PTL DEF RequestsSpec

LEMMA AnsweredByAsk ==
  ASSUME RequestsTypeOK, DraftIsLastCalls, [RequestsNext]_requestVars, Answered
  PROVE  Ask
<1>1. outcome = "none" /\ outcome' # "none"
  BY DEF Answered
<1>2. CASE SetAgentStore \/ SetLocalStore \/ SetEndpoint \/ SetApiKey \/ SetGrace \/ SetTimeout
  BY <1>1, <1>2, SettingType DEF outcome
<1>3. CASE Build \/ UseHandle \/ RegisterTool \/ UnregisterTool \/ ShareRegistry
  BY <1>1, <1>3, OtherStep
<1>4. ASSUME NEW k \in DOMAIN SlotsOf, StartDraft(k) PROVE FALSE
  BY <1>1, <1>4, StartDraftStep, SlotsAre
<1>5. CASE \/ \E r \in {"local", "cloud"} : SetRuntime(r)
           \/ \E s \in DOMAIN draft : \E v \in ValuesOf(s[1]) : SetSlot(s, v)
  BY <1>1, <1>5, DraftingStep
<1>6. CASE UNCHANGED requestVars
  BY <1>1, <1>6 DEF requestVars, outcome
<1>7. QED
  BY <1>2, <1>3, <1>4, <1>5, <1>6 DEF RequestsNext
-------------------------------------------------------------------------------
(* A request is refused for a fault of the calls. *)

\* The slots of a draft tell the runtime that was picked.
LEMMA RuntimeIsPicked ==
  ASSUME RequestsTypeOK, DraftIsLastCalls, kind = "agent"
  PROVE  Runtime = PickedRuntime
<1>1. /\ PickedRuntime \in Runtimes
      /\ DOMAIN draft = SlotsOf["agent"] \cup RuntimeSlots[PickedRuntime]
  BY Picked DEF DraftIsLastCalls
<1>2. Runtime \in Runtimes /\ DOMAIN draft = SlotsOf["agent"] \cup RuntimeSlots[Runtime]
  BY <1>1, SlotsAre DEF Runtime
<1>3. RuntimeSlots[Runtime] = RuntimeSlots[PickedRuntime]
  <2>1. ASSUME NEW a, NEW b, NEW c, a \cup b = a \cup c, a \cap b = {}, a \cap c = {}
        PROVE  b = c
    BY <2>1
  <2>2. QED
    BY <1>1, <1>2, <2>1, SlotFacts
<1>4. /\ RuntimeSlots["local"] # RuntimeSlots["cloud"] /\ RuntimeSlots["local"] # RuntimeSlots["none"]
      /\ RuntimeSlots["cloud"] # RuntimeSlots["none"]
  <2>1. RuntimeSlots["none"] = {}
    BY SlotsAre
  <2>2. QED
    BY <2>1, SlotFacts
<1>5. QED
  BY <1>1, <1>2, <1>3, <1>4 DEF Runtimes

LEMMA NoRuntime ==
  ASSUME kind # "agent"
  PROVE  PickedRuntime = "none"
BY DEF PickedRuntime, Picks

LEMMA KeyIsAsked ==
  ASSUME RequestsTypeOK, DraftIsLastCalls
  PROVE  Key = KeyAsked
<1>1. Value(<<"api_key", "">>) = Asked(<<"api_key", "">>)
  BY ValueIsAsked, NamedInAnySlot
<1>2. QED
  BY <1>1 DEF Key, KeyAsked

LEMMA BadSchemaIsAsked ==
  ASSUME RequestsTypeOK, DraftIsLastCalls, kind = "agent"
  PROVE  BadSchema <=> PickedRuntime = "local" /\ \E n \in Names : ToolAsked(n) = "empty"
<1>1. /\ PickedRuntime \in Runtimes
      /\ DOMAIN draft = SlotsOf["agent"] \cup RuntimeSlots[PickedRuntime]
  BY Picked DEF DraftIsLastCalls
<1>2. ASSUME NEW n \in Names, <<"custom_tools", n>> \in DOMAIN draft
      PROVE  Merged[<<"custom_tools", n>>] = ToolAsked(n)
  <2>1. draft[<<"custom_tools", n>>] = Asked(<<"custom_tools", n>>)
    BY <1>2 DEF DraftIsLastCalls
  <2>2. QED
    BY <1>2, <2>1 DEF Merged, ToolAsked
<1>3. ASSUME NEW s \in DOMAIN draft, s[1] = "custom_tools", Merged[s] = "empty"
      PROVE  PickedRuntime = "local" /\ \E n \in Names : ToolAsked(n) = "empty"
  <2>1. PickedRuntime = "local" /\ s[2] \in Names /\ s = <<"custom_tools", s[2]>>
    BY <1>1, <1>3, ToolSlots
  <2>2. PICK n : n = s[2]
    OBVIOUS
  <2>3. n \in Names /\ <<"custom_tools", n>> \in DOMAIN draft /\ Merged[<<"custom_tools", n>>] = "empty"
    BY <1>3, <2>1, <2>2
  <2>4. QED
    BY <1>2, <2>1, <2>3
<1>4. ASSUME PickedRuntime = "local", NEW n \in Names, ToolAsked(n) = "empty"
      PROVE  BadSchema
  <2>1. <<"custom_tools", n>> \in DOMAIN draft
    BY <1>1, <1>4, ToolSlots
  <2>2. Merged[<<"custom_tools", n>>] = "empty"
    BY <1>2, <1>4, <2>1
  <2>3. QED
    BY <2>1, <2>2 DEF BadSchema
<1>5. QED
  BY <1>3, <1>4 DEF BadSchema

\* A refusal of the client itself is about the flags it was built with.
LEMMA LaunchRefusalIsFault ==
  ASSUME RequestsTypeOK
  PROVE  /\ LaunchRefusal \in {"attach", "grace", "store", "none"}
         /\ LaunchRefusal = "attach" => client.attach /\ client.store
         /\ LaunchRefusal = "grace" => ~client.attach /\ client.grace # 0 /\ client.timeout <= client.grace
         /\ LaunchRefusal = "store" => /\ ~client.store /\ ~client.attach
                                       /\ client.local_store = "custom"
         /\ LaunchRefusal = "none" =>
              /\ ~(client.attach /\ client.store)
              /\ ~(~client.attach /\ client.grace # 0 /\ client.timeout <= client.grace)
              /\ ~(~client.store /\ ~client.attach /\ client.local_store = "custom")
<1>1. client.grace \in Nat /\ client.timeout \in Nat
  BY DEF RequestsTypeOK
<1>2. QED
  BY <1>1 DEF LaunchRefusal

LEMMA AgentRefusalIsFault ==
  ASSUME RequestsTypeOK, DraftIsLastCalls, kind = "agent"
  PROVE  /\ AgentRefusal \in {"store", "key", "model", "runtime", "schema", "none"}
         /\ AgentRefusal = "store" => Asked(<<"store", "">>) = "custom" /\ ~client.store
         /\ AgentRefusal = "key" => Empty(KeyAsked)
         /\ AgentRefusal = "model" => PickedRuntime = "local" /\ Asked(<<"model", "">>) = "unset"
         /\ AgentRefusal = "runtime" => PickedRuntime = "none"
         /\ AgentRefusal = "schema" =>
              PickedRuntime = "local" /\ \E n \in Names : ToolAsked(n) = "empty"
         /\ AgentRefusal = "none" =>
              /\ ~(Asked(<<"store", "">>) = "custom" /\ ~client.store)
              /\ ~Empty(KeyAsked) /\ PickedRuntime # "none"
              /\ ~(PickedRuntime = "local" /\ Asked(<<"model", "">>) = "unset")
              /\ ~(PickedRuntime = "local" /\ \E n \in Names : ToolAsked(n) = "empty")
<1>1. Value(<<"store", "">>) = Asked(<<"store", "">>)
  BY ValueIsAsked, NamedInAnySlot
<1>2. draft[<<"model", "">>] = Asked(<<"model", "">>)
  <2>1. <<"model", "">> \in DOMAIN draft
    BY NamedSlots DEF DraftIsLastCalls
  <2>2. QED
    BY <2>1 DEF DraftIsLastCalls
<1>3. Runtime = PickedRuntime /\ Key = KeyAsked
  BY RuntimeIsPicked, KeyIsAsked
<1>4. DEFINE B == PickedRuntime = "local" /\ \E n \in Names : ToolAsked(n) = "empty"
<1>5. BadSchema <=> B
  BY BadSchemaIsAsked
<1>6. B \in BOOLEAN
  OBVIOUS
<1> HIDE DEF B
<1>7. /\ AgentRefusal \in {"store", "key", "model", "runtime", "schema", "none"}
      /\ AgentRefusal = "store" => Asked(<<"store", "">>) = "custom" /\ ~client.store
      /\ AgentRefusal = "key" => Empty(KeyAsked)
      /\ AgentRefusal = "model" => PickedRuntime = "local" /\ Asked(<<"model", "">>) = "unset"
      /\ AgentRefusal = "runtime" => PickedRuntime = "none"
      /\ AgentRefusal = "schema" => B
      /\ AgentRefusal = "none" =>
           /\ ~(Asked(<<"store", "">>) = "custom" /\ ~client.store)
           /\ ~Empty(KeyAsked) /\ PickedRuntime # "none"
           /\ ~(PickedRuntime = "local" /\ Asked(<<"model", "">>) = "unset")
           /\ ~B
  BY <1>1, <1>2, <1>3, <1>5 DEF AgentRefusal
<1>8. QED
  BY <1>7 DEF B

\* Which faults there are.
LEMMA FaultsAre ==
  /\ "key" \in Faults <=> kind \in {"agent", "catalog"} /\ Empty(KeyAsked)
  /\ "runtime" \in Faults <=> kind = "agent" /\ PickedRuntime = "none"
  /\ "model" \in Faults <=> PickedRuntime = "local" /\ Asked(<<"model", "">>) = "unset"
  /\ "store" \in Faults <=>
       /\ ~client.store
       /\ \/ Asked(<<"store", "">>) = "custom"
          \/ ~Connected /\ ~client.attach /\ client.local_store = "custom"
  /\ "schema" \in Faults <=> PickedRuntime = "local" /\ \E n \in Names : ToolAsked(n) = "empty"
  /\ "attach" \in Faults <=> ~Connected /\ client.attach /\ client.store
  /\ "grace" \in Faults <=> /\ ~Connected /\ ~client.attach /\ client.grace # 0
                            /\ client.timeout <= client.grace
  /\ \A f \in Faults : f \in {"key", "runtime", "model", "store", "schema", "attach", "grace"}
BY DEF Faults

\* What a draft that is no agent's says of keys and stores.
LEMMA PlainDraft ==
  ASSUME RequestsTypeOK, DraftIsLastCalls, kind # "agent"
  PROVE  /\ Asked(<<"store", "">>) = "unset"
         /\ kind = "catalog" => KeyAsked = client.api_key
<1>1. DOMAIN draft = IF kind = "none" THEN {} ELSE SlotsOf[kind]
  BY DEF DraftIsLastCalls
<1>2. <<"store", "">> \notin DOMAIN draft
  BY <1>1, NamedSlots, SlotsAre DEF RequestsTypeOK
<1>3. kind = "catalog" => <<"api_key", "">> \notin DOMAIN draft
  BY <1>1, SlotsAre
<1>4. Asked(<<"store", "">>) = "unset"
  BY <1>2, ValueIsAsked, NamedInAnySlot DEF Value
<1>5. kind = "catalog" => Asked(<<"api_key", "">>) = "unset"
  BY <1>3, ValueIsAsked, NamedInAnySlot DEF Value
<1>6. QED
  BY <1>4, <1>5 DEF KeyAsked

LEMMA RefusalIsFault ==
  ASSUME RequestsTypeOK, DraftIsLastCalls, kind # "none"
  PROVE  /\ Refusal # "none" => Refusal \in Faults
         /\ Refusal = "none" /\ ~Connected /\ LaunchRefusal # "none" => LaunchRefusal \in Faults
         /\ Refusal = "none" /\ (~Connected => LaunchRefusal = "none") => Faults = {}
         /\ Refusal = "none" /\ Asked(<<"store", "">>) = "custom" => client.store
<1>1. CASE kind = "agent"
  <2>1. Refusal = AgentRefusal
    BY <1>1 DEF Refusal
  <2>2. Refusal # "none" => Refusal \in Faults
    BY <1>1, <2>1, AgentRefusalIsFault, FaultsAre
  <2>3. ~Connected /\ LaunchRefusal # "none" => LaunchRefusal \in Faults
    BY LaunchRefusalIsFault, FaultsAre
  <2>4. Refusal = "none" /\ (~Connected => LaunchRefusal = "none") => Faults = {}
    BY <1>1, <2>1, AgentRefusalIsFault, LaunchRefusalIsFault, FaultsAre
  <2>5. QED
    BY <1>1, <2>1, <2>2, <2>3, <2>4, AgentRefusalIsFault
<1>2. CASE kind # "agent"
  <2>1. Refusal = IF kind = "catalog" /\ Empty(client.api_key) THEN "key" ELSE "none"
    BY <1>2 DEF Refusal
  <2>2. Asked(<<"store", "">>) = "unset" /\ PickedRuntime = "none"
        /\ (kind = "catalog" => KeyAsked = client.api_key)
    BY <1>2, PlainDraft, NoRuntime
  <2>3. Refusal # "none" => Refusal \in Faults
    BY <2>1, <2>2, FaultsAre
  <2>4. ~Connected /\ LaunchRefusal # "none" => LaunchRefusal \in Faults
    BY LaunchRefusalIsFault, FaultsAre
  <2>5. Refusal = "none" /\ (~Connected => LaunchRefusal = "none") => Faults = {}
    BY <1>2, <2>1, <2>2, LaunchRefusalIsFault, FaultsAre
  <2>6. QED
    BY <2>2, <2>3, <2>4, <2>5
<1>3. QED
  BY <1>1, <1>2

LEMMA RefusedStep ==
  ASSUME RequestsTypeOK, DraftIsLastCalls, LaunchedAsBuilt, [RequestsNext]_requestVars, Answered
  PROVE  \/ /\ outcome' = "sent" /\ Faults = {}
            /\ "custom" \in {launched'.store, Value(<<"store", "">>)} =>
                 launched'.is = "ours" /\ launched'.storeServer
         \/ outcome' \in Faults /\ wire' = wire /\ launched' = launched
<1> DEFINE cause == IF Refusal # "none" THEN Refusal
                    ELSE IF ~Connected THEN LaunchRefusal ELSE "none"
<1>1. Ask
  BY AnsweredByAsk
<1>2. /\ kind # "none"
      /\ \/ cause # "none" /\ outcome' = cause /\ wire' = wire /\ launched' = launched
         \/ cause = "none" /\ outcome' = "sent" /\ launched' = IF Connected THEN launched ELSE Launch
  BY <1>1, AskEffect
<1>3. CASE cause # "none"
  <2>1. cause \in Faults
    BY <1>2, <1>3, RefusalIsFault
  <2>2. QED
    BY <1>2, <1>3, <2>1
<1>4. CASE cause = "none"
  <2>1. Refusal = "none" /\ (~Connected => LaunchRefusal = "none")
    BY <1>4
  <2>2. Faults = {} /\ (Asked(<<"store", "">>) = "custom" => client.store)
    BY <1>2, <2>1, RefusalIsFault
  <2>3. launched' = Launch /\ LaunchRefusal = "none"
    BY <1>2, <1>4, <2>1 DEF LaunchedAsBuilt
  <2>4. Value(<<"store", "">>) = "custom" => client.store
    BY <2>2, ValueIsAsked, NamedInAnySlot
  <2>5. launched'.store = "custom" => ~client.attach /\ client.store
    BY <2>3, LaunchRefusalIsFault DEF Launch, NoBridge
  <2>6. client.store => ~client.attach
    BY <2>3, LaunchRefusalIsFault
  <2>7. client.store => launched'.is = "ours" /\ launched'.storeServer
    BY <2>3, <2>6 DEF Launch
  <2>8. QED
    BY <1>2, <1>4, <2>2, <2>4, <2>5, <2>7
<1>5. QED
  BY <1>3, <1>4

\* RefusedForCause: what the builders forgot, overwrote or dropped decides, and nothing else.
THEOREM RequestsAreRefusedForCause == RequestsSpec => RefusedForCause
<1>1. RequestsInv /\ [RequestsNext]_requestVars =>
        [Answered =>
          \/ /\ outcome' = "sent" /\ Faults = {}
             /\ "custom" \in {launched'.store, Value(<<"store", "">>)} =>
                  launched'.is = "ours" /\ launched'.storeServer
          \/ outcome' \in Faults /\ wire' = wire /\ launched' = launched]_requestVars
  BY RefusedStep DEF RequestsInv
<1>2. QED
  BY Invariance, <1>1, PTL DEF RequestsSpec, RefusedForCause
-------------------------------------------------------------------------------
(* A request carries what was asked. *)

LEMMA KeySlots ==
  ASSUME RequestsTypeOK, DraftIsLastCalls, kind # "none", NEW s \in DOMAIN draft
  PROVE  /\ s[1] = "api_key" => s = <<"api_key", "">>
         /\ s[1] = "in_cwd" => kind = "agents"
         /\ s[1] = "custom_tools" => s[2] \in Names /\ s[2] # ""
<1>1. /\ "api_key" \notin AgentMaps \cup LocalFields \cup CloudFields \cup SendFields \cup PromptFields
      /\ "in_cwd" \notin AgentFields \cup AgentMaps \cup LocalFields \cup CloudFields
      /\ "in_cwd" \notin SendFields \cup PromptFields
  BY DEF AgentFields, AgentMaps, LocalFields, CloudFields, Bools, SendFields, PromptFields
<1>2. CASE kind = "agent"
  <2>1. /\ PickedRuntime \in Runtimes
        /\ s \in SlotsOf["agent"] \cup RuntimeSlots[PickedRuntime]
    BY <1>2, Picked DEF DraftIsLastCalls
  <2>2. s[1] = "custom_tools" => s[2] \in Names /\ s[2] # ""
    BY <2>1, ToolSlots, RequestsAssumption
  <2>3. \/ s \in Slots(AgentFields, AgentMaps)
        \/ s \in Slots(LocalFields, {"custom_tools"})
        \/ s \in Slots(CloudFields, {"env_vars", "metadata"})
    BY <2>1, SlotsAre DEF Runtimes
  <2>4. s[1] # "in_cwd" /\ (s[1] = "api_key" => s[2] = "")
    BY <1>1, <2>3 DEF Slots
  <2>5. s = <<s[1], s[2]>>
    BY <2>3, SlotIsPair
  <2>6. QED
    BY <2>2, <2>4, <2>5
<1>3. CASE kind # "agent"
  <2>1. kind \in Kinds /\ s \in SlotsOf[kind]
    BY <1>3, SlotsAre DEF DraftIsLastCalls, RequestsTypeOK
  <2>2. s[1] # "custom_tools"
    BY <1>3, <2>1, ToolSlots
  <2>3. \/ s \in Slots(SendFields \cup PromptFields, {"mcp_servers", "cloud_env_vars"})
        \/ s \in Slots({"limit", "cursor", "runtime"}, {})
        \/ s \in Slots({"limit", "offset", "runtime"}, {})
        \/ kind = "agents" /\ s \in Slots(ListAgentsFields, {})
    BY <1>3, <2>1, SlotsAre DEF Kinds
  <2>4. (s[1] = "in_cwd" => kind = "agents") /\ (s[1] = "api_key" => s[2] = "")
    BY <1>1, <2>3 DEF Slots
  <2>5. s = <<s[1], s[2]>>
    BY <2>3, SlotIsPair
  <2>6. QED
    BY <2>2, <2>4, <2>5
<1>4. QED
  BY <1>2, <1>3

\* The three ways in which Encoded fills a slot.
LEMMA EncodedIs ==
  /\ DOMAIN draft \subseteq DOMAIN Encoded
  /\ \A s \in DOMAIN Encoded :
       \/ s = <<"api_key", "">> /\ Encoded[s] = IF Key = "unset" THEN "empty" ELSE Key
       \/ /\ s = <<"in_cwd", "">> /\ kind # "agents"
          /\ Encoded[s] = IF agentCwd = "unset" THEN "empty" ELSE agentCwd
       \/ /\ s \in DOMAIN draft /\ s # <<"api_key", "">>
          /\ Encoded[s] = IF Merged[s] = "unset" /\ s[2] = "" /\ s[1] \notin Optional
                          THEN "empty" ELSE Merged[s]
BY DEF Encoded

LEMMA CarriedStep ==
  ASSUME RequestsTypeOK, DraftIsLastCalls, LaunchedAsBuilt, [RequestsNext]_requestVars,
         Answered, outcome' = "sent"
  PROVE  /\ \A i \in DOMAIN calls : Asked(calls[i].slot) # "unset" =>
              i \in Picks \/ calls[i].slot \in DOMAIN wire'
         /\ \A s \in DOMAIN wire' :
              IF Asked(s) # "unset" THEN wire'[s] = Asked(s)
              ELSE IF s[1] = "api_key" /\ client.api_key # "unset" THEN wire'[s] = client.api_key
              ELSE IF s[1] = "custom_tools" THEN wire'[s] = registry[s[2]]
              ELSE IF s[1] = "in_cwd" /\ kind # "agents" /\ agentCwd # "unset" THEN wire'[s] = agentCwd
              ELSE wire'[s] \in IF s[1] \in Kept THEN {"unset"} ELSE {"unset", "empty"}
<1>1. kind # "none" /\ wire' = Encoded
  <2>1. Ask
    BY AnsweredByAsk
  <2>2. Refusal # "sent" /\ LaunchRefusal # "sent"
    BY LaunchRefusalIsFault DEF Refusal, AgentRefusal
  <2>3. QED
    BY <2>1, <2>2, AskEffect
<1>2. ASSUME NEW i \in DOMAIN calls, Asked(calls[i].slot) # "unset"
      PROVE  calls[i].slot \in DOMAIN wire'
  <2>1. calls \in Seq([slot : AnySlot, value : Values]) /\ i \in 1..Len(calls)
    BY <1>2 DEF RequestsTypeOK
  <2>2. calls[i] \in [slot : AnySlot, value : Values]
    BY <2>1, ElementOfSeq
  <2>3. PICK s \in AnySlot : s = calls[i].slot
    BY <2>2
  <2>4. s \in DOMAIN draft
    BY <1>2, <2>3, ValueIsAsked DEF Value
  <2>5. QED
    BY <1>1, <2>3, <2>4, EncodedIs
<1>3. ASSUME NEW s \in DOMAIN wire'
      PROVE  IF Asked(s) # "unset" THEN wire'[s] = Asked(s)
             ELSE IF s[1] = "api_key" /\ client.api_key # "unset" THEN wire'[s] = client.api_key
             ELSE IF s[1] = "custom_tools" THEN wire'[s] = registry[s[2]]
             ELSE IF s[1] = "in_cwd" /\ kind # "agents" /\ agentCwd # "unset" THEN wire'[s] = agentCwd
             ELSE wire'[s] \in IF s[1] \in Kept THEN {"unset"} ELSE {"unset", "empty"}
  <2>1. CASE s = <<"api_key", "">> /\ wire'[s] = IF Key = "unset" THEN "empty" ELSE Key
    <3>1. Value(s) = Asked(s)
      BY <2>1, ValueIsAsked, NamedInAnySlot
    <3>2. Key = IF Asked(s) = "unset" THEN client.api_key ELSE Asked(s)
      BY <2>1, <3>1 DEF Key
    <3>3. s[1] = "api_key" /\ "api_key" \notin Kept
      BY <2>1 DEF Kept, Bools
    <3>4. QED
      BY <2>1, <3>2, <3>3
  <2>2. CASE /\ s = <<"in_cwd", "">> /\ kind # "agents"
             /\ wire'[s] = IF agentCwd = "unset" THEN "empty" ELSE agentCwd
    <3>1. s \notin DOMAIN draft
      BY <1>1, <2>2, KeySlots
    <3>2. Asked(s) = "unset"
      <4>1. CASE s \in AnySlot
        BY <3>1, <4>1, ValueIsAsked DEF Value
      <4>2. CASE s \notin AnySlot
        <5>1. ASSUME NEW i \in DOMAIN calls PROVE calls[i].slot # s
          <6>1. calls \in Seq([slot : AnySlot, value : Values]) /\ i \in 1..Len(calls)
            BY <5>1 DEF RequestsTypeOK
          <6>2. calls[i] \in [slot : AnySlot, value : Values]
            BY <6>1, ElementOfSeq
          <6>3. QED
            BY <4>2, <6>2
        <5>2. QED
          BY <5>1 DEF Asked, CallsOf
      <4>3. QED
        BY <4>1, <4>2
    <3>3. s[1] = "in_cwd" /\ "in_cwd" \notin Kept
      BY <2>2 DEF Kept, Bools
    <3>4. QED
      BY <2>2, <3>2, <3>3
  <2>3. CASE /\ s \in DOMAIN draft /\ s # <<"api_key", "">>
             /\ wire'[s] = IF Merged[s] = "unset" /\ s[2] = "" /\ s[1] \notin Optional
                           THEN "empty" ELSE Merged[s]
    <3>1. draft[s] = Asked(s)
      BY <2>3 DEF DraftIsLastCalls
    <3>2. Merged[s] = IF s[1] = "custom_tools" /\ Asked(s) = "unset" THEN registry[s[2]] ELSE Asked(s)
      BY <2>3, <3>1 DEF Merged
    <3>3. s[1] # "api_key" /\ (s[1] = "in_cwd" => kind = "agents") /\ (s[1] = "custom_tools" => s[2] # "")
      BY <1>1, <2>3, KeySlots
    <3>4. s[1] \in Kept => s[1] \in Optional
      BY DEF Kept, Optional
    <3>5. QED
      BY <2>3, <3>2, <3>3, <3>4
  <2>4. QED
    BY <1>1, <1>3, <2>1, <2>2, <2>3, EncodedIs
<1>4. QED
  BY <1>2, <1>3

\* CarriesWhatWasAsked: nothing that was said last is lost, and nothing is made up.
THEOREM RequestsCarryWhatWasAsked == RequestsSpec => CarriesWhatWasAsked
<1>1. RequestsInv /\ [RequestsNext]_requestVars =>
        [Answered /\ outcome' = "sent" =>
          /\ \A i \in DOMAIN calls : Asked(calls[i].slot) # "unset" =>
               i \in Picks \/ calls[i].slot \in DOMAIN wire'
          /\ \A s \in DOMAIN wire' :
               IF Asked(s) # "unset" THEN wire'[s] = Asked(s)
               ELSE IF s[1] = "api_key" /\ client.api_key # "unset" THEN wire'[s] = client.api_key
               ELSE IF s[1] = "custom_tools" THEN wire'[s] = registry[s[2]]
               ELSE IF s[1] = "in_cwd" /\ kind # "agents" /\ agentCwd # "unset" THEN wire'[s] = agentCwd
               ELSE wire'[s] \in IF s[1] \in Kept THEN {"unset"} ELSE {"unset", "empty"}]_requestVars
  BY CarriedStep DEF RequestsInv
<1>2. QED
  BY Invariance, <1>1, PTL DEF RequestsSpec, CarriesWhatWasAsked
==============================================================================
