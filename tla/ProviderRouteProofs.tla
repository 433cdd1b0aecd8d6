------------------------ MODULE ProviderRouteProofs ------------------------
(***************************************************************************)
(* Theorems about the answers of provider routes, for every configuration  *)
(* and whatever the refreshes, the clock and the other requests do between *)
(* two awaits of a handler.                                                *)
(***************************************************************************)
EXTENDS ServiceProofs

----------------------------------------------------------------------------
(* The inductive invariant, besides ServiceInv.                            *)

ReadTypes ==
    /\ records \in [Requests -> Seq(Nat)] /\ status \in [Requests -> Statuses]
    /\ always \in [Requests -> SUBSET Sources] /\ ever \in [Requests -> SUBSET Sources]

Increasing(places) == \A i, j \in DOMAIN places : i < j => places[i] < places[j]
Taken(r) == ToSet(records[r])
Passed(r) == 1..(next[r] - 1)

(* What the history says of the records that were collected.               *)
HistoryOK(r) ==
    /\ always[r] \subseteq AllValid
    /\ Collected(r) \subseteq ever[r]
    /\ pc[r] \in {"read", "yield", "wait", "reread"} => AllValid \subseteq ever[r]
    /\ Increasing(records[r]) /\ Taken(r) \subseteq DOMAIN Route[r]
    /\ pc[r] = "idle" => records[r] = <<>>

(* The first reading puts each place it passes into the answer or among    *)
(* the missing.                                                            *)
FirstOK(r) ==
    /\ pc[r] = "read" => next[r] \in DOMAIN Route[r] /\ Taken(r) \cup missing[r] = Passed(r)
    /\ pc[r] = "yield" => Taken(r) \cup missing[r] = DOMAIN Route[r]
    /\ pc[r] = "wait" => DOMAIN Route[r] # {}

(* The second leaves out no source that has been valid since it began.     *)
SecondOK(r) ==
    pc[r] = "reread" =>
        /\ next[r] \in DOMAIN Route[r] /\ Taken(r) \subseteq Passed(r)
        /\ \A i \in Passed(r) : Route[r][i] \in always[r] => i \in Taken(r)
        /\ r \in RequireAll => Taken(r) = Passed(r)

AnswerOK(r) ==
    /\ status[r] = "ok" /\ pc[r] = "audit" =>
          records[r] # <<>> /\ (r \in RequireAll => Taken(r) = DOMAIN Route[r])
    /\ status[r] = "unavailable" /\ pc[r] = "audit" =>
          RouteSources(r) \cap always[r] = {} \/ (r \in RequireAll /\ ~(RouteSources(r) \subseteq always[r]))

ReadingOK(r) == HistoryOK(r) /\ FirstOK(r) /\ SecondOK(r) /\ AnswerOK(r)

ReadInv == ReadTypes /\ \A r \in Requests : ReadingOK(r)

----------------------------------------------------------------------------
(* Places                                                                  *)

LEMMA PlaceAppended ==
    ASSUME NEW places \in Seq(Nat), NEW n \in Nat, Increasing(places), ToSet(places) \subseteq 1..(n - 1)
    PROVE  /\ Append(places, n) \in Seq(Nat) /\ Append(places, n) # <<>>
           /\ Increasing(Append(places, n)) /\ ToSet(Append(places, n)) = ToSet(places) \cup {n}
<1> DEFINE longer == Append(places, n)
<1>1. /\ longer \in Seq(Nat) /\ Len(places) \in Nat /\ Len(longer) = Len(places) + 1
      /\ DOMAIN places = 1..Len(places) /\ DOMAIN longer = 1..(Len(places) + 1)
      /\ longer[Len(places) + 1] = n /\ \A i \in 1..Len(places) : longer[i] = places[i]
  OBVIOUS
<1>2. longer # <<>>
  BY <1>1
<1>3. \A i \in DOMAIN places : places[i] \in Nat /\ places[i] < n
  <2> SUFFICES ASSUME NEW i \in DOMAIN places PROVE places[i] \in Nat /\ places[i] < n
    OBVIOUS
  <2>1. places[i] \in ToSet(places)
    BY DEF ToSet
  <2> QED
    BY <2>1
<1> HIDE DEF longer
<1>4. ASSUME NEW i \in DOMAIN longer, NEW j \in DOMAIN longer, i < j PROVE longer[i] < longer[j]
  <2>1. i \in 1..Len(places)
    BY <1>1, <1>4
  <2>2. CASE j = Len(places) + 1
    BY <1>1, <1>3, <2>1, <2>2
  <2>3. CASE j \in 1..Len(places)
    BY <1>1, <1>4, <2>1, <2>3 DEF Increasing
  <2> QED
    BY <1>1, <2>2, <2>3
<1>5. Increasing(longer)
  BY <1>4 DEF Increasing
<1>6. ToSet(longer) = ToSet(places) \cup {n}
  <2>1. ASSUME NEW x \in ToSet(longer) PROVE x \in ToSet(places) \cup {n}
    <3>1. PICK i \in DOMAIN longer : x = longer[i]
      BY DEF ToSet
    <3>2. CASE i = Len(places) + 1
      BY <1>1, <3>1, <3>2
    <3>3. CASE i \in 1..Len(places)
      BY <1>1, <3>1, <3>3 DEF ToSet
    <3> QED
      BY <1>1, <3>2, <3>3
  <2>2. ASSUME NEW x \in ToSet(places) PROVE x \in ToSet(longer)
    <3>1. PICK i \in DOMAIN places : x = places[i]
      BY DEF ToSet
    <3> QED
      BY <1>1, <3>1 DEF ToSet
  <2>3. n \in ToSet(longer)
    <3>1. Len(places) + 1 \in DOMAIN longer
      BY <1>1
    <3> QED
      BY <1>1, <3>1 DEF ToSet
  <2> QED
    BY <2>1, <2>2, <2>3
<1> QED
  BY <1>1, <1>2, <1>5, <1>6 DEF longer

LEMMA NoPlaces == ToSet(<<>>) = {} /\ Increasing(<<>>) /\ <<>> \in Seq(Nat)
BY DEF ToSet, Increasing

LEMMA SomePlaces ==
    ASSUME NEW places \in Seq(Nat), places # <<>>
    PROVE  ToSet(places) # {}
<1>1. 1 \in DOMAIN places
  OBVIOUS
<1> QED
  BY <1>1 DEF ToSet

----------------------------------------------------------------------------
(* Steps of others                                                         *)

LEMMA SameReading ==
    ASSUME ReadInv,
           UNCHANGED <<config, cache, pc, next, records, missing, status, always, ever>>
    PROVE  ReadInv'
<1>1. ReadTypes'
  BY DEF ReadInv, ReadTypes
<1>2. AllValid' = AllValid
  BY DEF AllValid, Valid
<1>3. ASSUME NEW r \in Requests PROVE ReadingOK(r)'
  <2>1. ReadingOK(r)
    BY DEF ReadInv
  <2>2. HistoryOK(r)'
    BY <1>2, <2>1 DEF ReadingOK, HistoryOK, Collected, Taken, Route
  <2>3. FirstOK(r)' /\ SecondOK(r)'
    BY <2>1 DEF ReadingOK, FirstOK, SecondOK, Route, RequireAll, Taken, Passed
  <2>4. AnswerOK(r)'
    BY <2>1 DEF ReadingOK, AnswerOK, Route, RequireAll, Taken, RouteSources
  <2> QED
    BY <2>2, <2>3, <2>4 DEF ReadingOK
<1> QED
  BY <1>1, <1>3 DEF ReadInv

(* A record that becomes valid or stops being so only adds to what was     *)
(* valid at some time and takes from what was valid all the time.          *)
LEMMA ObservedReading ==
    ASSUME ReadInv, Observe, UNCHANGED <<config, pc, next, records, missing, status>>
    PROVE  ReadInv'
<1>1. /\ always' = [r \in Requests |-> {s \in always[r] : Valid(s)'}]
      /\ ever' = [r \in Requests |->
                    IF pc[r] \notin {"idle", "done"} THEN ever[r] \cup {s \in Sources : Valid(s)'} ELSE ever[r]]
  BY DEF Observe
<1>2. AllValid' = {s \in Sources : Valid(s)'}
  BY DEF AllValid
<1>3. ASSUME NEW r \in Requests
      PROVE  /\ always'[r] \subseteq always[r] /\ always'[r] \subseteq AllValid' /\ ever[r] \subseteq ever'[r]
             /\ ever'[r] \subseteq Sources
             /\ pc[r] \notin {"idle", "done"} => AllValid' \subseteq ever'[r]
  <2>1. always[r] \subseteq Sources /\ ever[r] \subseteq Sources
    BY DEF ReadInv, ReadTypes
  <2> QED
    BY <1>1, <1>2, <2>1
<1>4. ReadTypes'
  <2>1. always' \in [Requests -> SUBSET Sources]
    BY <1>1 DEF ReadInv, ReadTypes
  <2>2. ever' \in [Requests -> SUBSET Sources]
    BY <1>1 DEF ReadInv, ReadTypes
  <2> QED
    BY <2>1, <2>2 DEF ReadInv, ReadTypes
<1>5. ASSUME NEW r \in Requests PROVE ReadingOK(r)'
  <2>1. ReadingOK(r)
    BY DEF ReadInv
  <2>2. HistoryOK(r)'
    BY <1>3, <2>1 DEF ReadingOK, HistoryOK, Collected, Taken, Route
  <2>3. FirstOK(r)' /\ SecondOK(r)'
    BY <1>3, <2>1 DEF ReadingOK, FirstOK, SecondOK, Route, RequireAll, Taken, Passed
  <2>4. AnswerOK(r)'
    BY <1>3, <2>1 DEF ReadingOK, AnswerOK, Route, RequireAll, Taken, RouteSources
  <2> QED
    BY <2>2, <2>3, <2>4 DEF ReadingOK
<1> QED
  BY <1>4, <1>5 DEF ReadInv

(* A step of one handler leaves the readings of the others alone.          *)
LEMMA HandlerReads ==
    ASSUME ReadInv, NEW r \in Requests, UNCHANGED <<config, cache>>, ReadTypes', ReadingOK(r)',
           \A q \in Requests \ {r} :
              /\ pc'[q] = pc[q] /\ next'[q] = next[q] /\ records'[q] = records[q]
              /\ missing'[q] = missing[q] /\ status'[q] = status[q]
              /\ always'[q] = always[q] /\ ever'[q] = ever[q]
    PROVE  ReadInv'
<1>1. AllValid' = AllValid
  BY DEF AllValid, Valid
<1>2. ASSUME NEW q \in Requests PROVE ReadingOK(q)'
  <2>1. CASE q = r
    BY <2>1
  <2>2. CASE q # r
    <3>1. ReadingOK(q)
      BY DEF ReadInv
    <3>2. /\ pc'[q] = pc[q] /\ next'[q] = next[q] /\ records'[q] = records[q]
          /\ missing'[q] = missing[q] /\ status'[q] = status[q]
          /\ always'[q] = always[q] /\ ever'[q] = ever[q]
      BY <2>2
    <3>3. HistoryOK(q)'
      BY <1>1, <3>1, <3>2 DEF ReadingOK, HistoryOK, Collected, Taken, Route
    <3>4. FirstOK(q)' /\ SecondOK(q)'
      BY <3>1, <3>2 DEF ReadingOK, FirstOK, SecondOK, Route, RequireAll, Taken, Passed
    <3>5. AnswerOK(q)'
      BY <3>1, <3>2 DEF ReadingOK, AnswerOK, Route, RequireAll, Taken, RouteSources
    <3> QED
      BY <3>3, <3>4, <3>5 DEF ReadingOK
  <2> QED
    BY <2>1, <2>2
<1> QED
  BY <1>2 DEF ReadInv
----------------------------------------------------------------------------
(* The handler                                                             *)

LEMMA ArriveReads ==
    ASSUME ServiceInv, ReadInv, NEW r \in Requests, Arrive(r), UNCHANGED config
    PROVE  ReadInv'
<1> DEFINE p == IF Route[r] = <<>> THEN "yield" ELSE "read"
<1>1. /\ pc[r] = "idle" /\ pc' = [pc EXCEPT ![r] = p] /\ next' = [next EXCEPT ![r] = 1]
      /\ always' = [always EXCEPT ![r] = AllValid] /\ ever' = [ever EXCEPT ![r] = AllValid]
      /\ UNCHANGED <<cache, records, missing, status>>
  BY DEF Arrive, Goto, ReadingBegins, callVars
<1>2. HandlerTypes /\ CallTypes /\ ReadTypes /\ PlacesOK(r) /\ ReadingOK(r)
  BY DEF ServiceInv, Types, HandlersOK, ReadInv
<1>3. /\ pc'[r] = p /\ next'[r] = 1 /\ always'[r] = AllValid /\ ever'[r] = AllValid
      /\ missing[r] = {} /\ records[r] = <<>>
  BY <1>1, <1>2 DEF HandlerTypes, ReadTypes, PlacesOK, ReadingOK, HistoryOK
<1>4. AllValid \subseteq Sources /\ AllValid' = AllValid
  BY <1>1 DEF AllValid, Valid
<1>5. ReadTypes'
  BY <1>1, <1>2, <1>4 DEF ReadTypes
<1>6. Taken(r) = {} /\ Collected(r) = {}
  BY <1>3, NoPlaces DEF Taken, Collected
<1>7. HistoryOK(r)'
  <2>1. Collected(r)' = {} /\ Taken(r)' = {} /\ records'[r] = <<>>
    BY <1>1, <1>3, NoPlaces DEF Collected, Taken
  <2> QED
    BY <1>3, <1>4, <2>1, NoPlaces DEF HistoryOK
<1>8. FirstOK(r)'
  <2>1. Taken(r)' = {} /\ missing'[r] = {} /\ Passed(r)' = {}
    BY <1>1, <1>3, <1>6 DEF Taken, Passed
  <2>2. /\ DOMAIN Route[r] = 1..Len(Route[r]) /\ Len(Route[r]) \in Nat
        /\ Route[r] = <<>> <=> Len(Route[r]) = 0
    BY <1>2, RoutePlaces
  <2>3. Route' = Route
    BY DEF Route
  <2> QED
    BY <1>3, <2>1, <2>2, <2>3 DEF FirstOK
<1>9. SecondOK(r)' /\ AnswerOK(r)'
  BY <1>3 DEF SecondOK, AnswerOK
<1> QED
  BY <1>1, <1>2, <1>5, <1>7, <1>8, <1>9, HandlerReads DEF HandlerTypes, ReadTypes, ReadingOK

LEMMA RefuseReads ==
    ASSUME ServiceInv, ReadInv, NEW r \in Requests, Refuse(r), UNCHANGED config
    PROVE  ReadInv'
<1>1. /\ pc[r] = "idle" /\ pc' = [pc EXCEPT ![r] = "audit"] /\ status' = [status EXCEPT ![r] = "refused"]
      /\ UNCHANGED <<cache, next, records, missing, always, ever>>
  BY DEF Refuse, Goto, Reply, callVars
<1>2. HandlerTypes /\ ReadTypes /\ ReadingOK(r)
  BY DEF ServiceInv, Types, ReadInv
<1>3. pc'[r] = "audit" /\ status'[r] = "refused"
  BY <1>1, <1>2 DEF HandlerTypes, ReadTypes
<1>4. ReadTypes'
  BY <1>1, <1>2 DEF ReadTypes, Statuses
<1>5. AllValid' = AllValid
  BY <1>1 DEF AllValid, Valid
<1>6. HistoryOK(r)'
  BY <1>1, <1>2, <1>3, <1>5 DEF ReadingOK, HistoryOK, Collected, Taken, Route
<1>7. FirstOK(r)' /\ SecondOK(r)' /\ AnswerOK(r)'
  BY <1>3 DEF FirstOK, SecondOK, AnswerOK
<1> QED
  BY <1>1, <1>2, <1>4, <1>6, <1>7, HandlerReads DEF HandlerTypes, ReadTypes, ReadingOK

LEMMA ReadReads ==
    ASSUME ServiceInv, ReadInv, NEW r \in Requests, Read(r), UNCHANGED config
    PROVE  ReadInv'
<1> DEFINE i == next[r]
           s == Route[r][i]
<1>1. HandlerTypes /\ CallTypes /\ ReadTypes /\ PlacesOK(r) /\ ReadingOK(r) /\ pc[r] = "read"
  BY DEF ServiceInv, Types, HandlersOK, ReadInv, Read
<1>2. /\ i \in DOMAIN Route[r] /\ i \in Nat \ {0} /\ s \in Sources
      /\ DOMAIN Route[r] = 1..Len(Route[r]) /\ Len(Route[r]) \in Nat
  BY <1>1, RoutePlaces DEF PlacesOK
<1>3. /\ records' = [records EXCEPT ![r] = IF Valid(s) THEN Append(@, i) ELSE @]
      /\ missing' = [missing EXCEPT ![r] = IF Valid(s) THEN @ ELSE @ \cup {i}]
      /\ next' = [next EXCEPT ![r] = i + 1]
      /\ UNCHANGED <<cache, status, always, ever>>
  BY DEF Read, Advance
<1>4. PICK p \in {"read", "yield"} :
        /\ pc' = [pc EXCEPT ![r] = p]
        /\ p = "read" => i # Len(Route[r])
        /\ p = "yield" => i = Len(Route[r])
  <2>1. CASE ~AtLast(r) /\ UNCHANGED pc
    <3>1. pc' = [pc EXCEPT ![r] = "read"]
      BY <1>1, <2>1 DEF HandlerTypes
    <3> QED
      BY <2>1, <3>1 DEF AtLast
  <2>2. CASE AtLast(r) /\ Goto(r, "yield")
    BY <2>2 DEF AtLast, Goto
  <2> QED
    BY <2>1, <2>2 DEF Read
<1>5. /\ records'[r] = IF Valid(s) THEN Append(records[r], i) ELSE records[r]
      /\ missing'[r] = IF Valid(s) THEN missing[r] ELSE missing[r] \cup {i}
      /\ next'[r] = i + 1 /\ pc'[r] = p
  BY <1>1, <1>3, <1>4 DEF HandlerTypes, ReadTypes
<1>6. AllValid' = AllValid /\ (Valid(s) => s \in ever[r])
  <2>1. AllValid \subseteq ever[r]
    BY <1>1 DEF ReadingOK, HistoryOK
  <2> QED
    BY <1>2, <1>3, <2>1 DEF AllValid, Valid
<1>7. /\ records[r] \in Seq(Nat) /\ Increasing(records[r])
      /\ ToSet(records[r]) \cup missing[r] = 1..(i - 1)
  BY <1>1 DEF ReadTypes, ReadingOK, HistoryOK, FirstOK, Taken, Passed
<1> HIDE DEF i, s
<1>8. /\ records'[r] \in Seq(Nat) /\ Increasing(records'[r])
      /\ ToSet(records'[r]) = IF Valid(s) THEN ToSet(records[r]) \cup {i} ELSE ToSet(records[r])
  BY <1>2, <1>5, <1>7, PlaceAppended
<1>9. ReadTypes'
  <2>1. records' \in [Requests -> Seq(Nat)]
    BY <1>1, <1>3, <1>5, <1>8 DEF ReadTypes
  <2> QED
    BY <1>1, <1>3, <2>1 DEF ReadTypes
<1>10. ToSet(records'[r]) \cup missing'[r] = 1..i
  <2>1. ToSet(records'[r]) \cup missing'[r] = (1..(i - 1)) \cup {i}
    BY <1>5, <1>7, <1>8
  <2> QED
    BY <1>2, <2>1
<1>11. HistoryOK(r)'
  <2>1. Collected(r)' \subseteq Collected(r) \cup (IF Valid(s) THEN {s} ELSE {})
    BY <1>8 DEF Collected, Route, s
  <2>2. Collected(r)' \subseteq ever'[r]
    BY <1>1, <1>3, <1>6, <2>1 DEF ReadingOK, HistoryOK
  <2>3. Taken(r)' \subseteq DOMAIN Route[r]'
    BY <1>2, <1>10 DEF Taken, Route
  <2> QED
    BY <1>1, <1>3, <1>5, <1>6, <1>8, <2>2, <2>3 DEF ReadingOK, HistoryOK
<1>12. FirstOK(r)'
  <2>1. Route' = Route
    BY DEF Route
  <2>2. Passed(r)' = 1..i
    <3>1. (i + 1) - 1 = i
      BY <1>2
    <3> QED
      BY <1>5, <3>1 DEF Passed
  <2>3. p = "read" => i + 1 \in DOMAIN Route[r]
    BY <1>2, <1>4
  <2>4. p = "yield" => 1..i = DOMAIN Route[r]
    BY <1>2, <1>4
  <2> QED
    BY <1>5, <1>10, <2>1, <2>2, <2>3, <2>4 DEF FirstOK, Taken
<1>13. SecondOK(r)' /\ AnswerOK(r)'
  BY <1>5 DEF SecondOK, AnswerOK
<1> QED
  BY <1>1, <1>3, <1>4, <1>9, <1>11, <1>12, <1>13, HandlerReads DEF HandlerTypes, ReadTypes, ReadingOK

(* A handler that does not wait has a record to serve or no source at all, *)
(* and where all its sources are required it has them.                     *)
LEMMA StartMissingReads ==
    ASSUME ServiceInv, ReadInv, NEW r \in Requests, StartMissing(r), UNCHANGED config
    PROVE  ReadInv'
<1> DEFINE mine == CallsOf(r, missing[r])
           waits == mine # {} /\ (r \in RequireAll \/ records[r] = <<>>)
<1>1. HandlerTypes /\ CallTypes /\ ReadTypes /\ PlacesOK(r) /\ ReadingOK(r) /\ pc[r] = "yield"
  BY DEF ServiceInv, Types, HandlersOK, ReadInv, StartMissing
<1>2. UNCHANGED <<cache, next, records, missing, always, ever>>
  BY DEF StartMissing
<1>3. mine = {} <=> missing[r] = {}
  BY DEF CallsOf
<1>4. AllValid' = AllValid /\ Route' = Route
  BY <1>2 DEF AllValid, Valid, Route
<1>5. CASE waits /\ Goto(r, "wait") /\ UNCHANGED status
  <2>1. pc' = [pc EXCEPT ![r] = "wait"] /\ pc'[r] = "wait"
    BY <1>1, <1>5 DEF Goto, HandlerTypes
  <2>2. ReadTypes'
    BY <1>1, <1>2, <1>5 DEF ReadTypes
  <2>3. HistoryOK(r)'
    BY <1>1, <1>2, <1>4, <2>1 DEF ReadingOK, HistoryOK, Collected, Taken
  <2>4. FirstOK(r)' /\ SecondOK(r)' /\ AnswerOK(r)'
    BY <1>1, <1>3, <1>4, <1>5, <2>1 DEF PlacesOK, FirstOK, SecondOK, AnswerOK
  <2> QED
    BY <1>1, <1>2, <1>5, <2>1, <2>2, <2>3, <2>4, HandlerReads DEF HandlerTypes, ReadingOK
<1>6. CASE ~waits /\ Answer(r, records[r])
  <2>1. PICK answer \in IF records[r] = <<>> THEN {"unavailable"} ELSE {"ok", "unrendered"} :
          pc' = [pc EXCEPT ![r] = "audit"] /\ status' = [status EXCEPT ![r] = answer]
    BY <1>6 DEF Answer, Reply, Goto
  <2>2. answer \in Statuses
    BY DEF Statuses
  <2>3. pc'[r] = "audit" /\ status'[r] = answer
    BY <1>1, <2>1 DEF HandlerTypes, ReadTypes
  <2>4. ReadTypes'
    BY <1>1, <1>2, <2>1, <2>2 DEF ReadTypes
  <2>5. HistoryOK(r)'
    BY <1>1, <1>2, <1>4, <2>3 DEF ReadingOK, HistoryOK, Collected, Taken
  <2>6. Taken(r) \cup missing[r] = DOMAIN Route[r]
    BY <1>1 DEF ReadingOK, FirstOK
  <2>7. AnswerOK(r)'
    <3>1. CASE records[r] = <<>>
      <4>1. missing[r] = {} /\ Taken(r) = {}
        BY <1>3, <1>6, <3>1, NoPlaces DEF Taken
      <4>2. RouteSources(r)' = {}
        BY <1>4, <2>6, <4>1 DEF RouteSources, ToSet
      <4>3. answer = "unavailable"
        BY <2>1, <3>1
      <4> QED
        BY <2>3, <4>2, <4>3 DEF AnswerOK
    <3>2. CASE records[r] # <<>>
      <4>1. answer # "unavailable"
        BY <2>1, <3>2
      <4>2. r \in RequireAll => missing[r] = {}
        BY <1>3, <1>6
      <4>3. Taken(r)' = Taken(r) /\ RequireAll' = RequireAll
        BY <1>2 DEF Taken, RequireAll
      <4> QED
        BY <1>2, <1>4, <2>3, <2>6, <3>2, <4>1, <4>2, <4>3 DEF AnswerOK
    <3> QED
      BY <3>1, <3>2
  <2>8. FirstOK(r)' /\ SecondOK(r)'
    BY <2>3 DEF FirstOK, SecondOK
  <2> QED
    BY <1>1, <1>2, <2>1, <2>4, <2>5, <2>7, <2>8, HandlerReads DEF HandlerTypes, ReadTypes, ReadingOK
<1> QED
  BY <1>5, <1>6 DEF StartMissing
LEMMA CollectReads ==
    ASSUME ServiceInv, ReadInv, NEW r \in Requests, Collect(r), UNCHANGED config
    PROVE  ReadInv'
<1>1. /\ pc[r] = "wait" /\ pc' = [pc EXCEPT ![r] = "reread"] /\ next' = [next EXCEPT ![r] = 1]
      /\ records' = [records EXCEPT ![r] = <<>>]
      /\ always' = [always EXCEPT ![r] = AllValid] /\ ever' = [ever EXCEPT ![r] = AllValid]
      /\ UNCHANGED <<cache, missing, status>>
  BY DEF Collect, Goto, ReadingBegins, callVars
<1>2. HandlerTypes /\ CallTypes /\ ReadTypes /\ ReadingOK(r)
  BY DEF ServiceInv, Types, ReadInv
<1>3. /\ pc'[r] = "reread" /\ next'[r] = 1 /\ records'[r] = <<>>
      /\ always'[r] = AllValid /\ ever'[r] = AllValid
  BY <1>1, <1>2 DEF HandlerTypes, ReadTypes
<1>4. AllValid \subseteq Sources /\ AllValid' = AllValid
  BY <1>1 DEF AllValid, Valid
<1>5. ReadTypes'
  <2>1. records' \in [Requests -> Seq(Nat)]
    BY <1>1, <1>2, NoPlaces DEF ReadTypes
  <2> QED
    BY <1>1, <1>2, <1>4, <2>1 DEF ReadTypes
<1>6. HistoryOK(r)'
  <2>1. Collected(r)' = {} /\ Taken(r)' = {}
    BY <1>3, NoPlaces DEF Collected, Taken
  <2> QED
    BY <1>3, <1>4, <2>1, NoPlaces DEF HistoryOK
<1>7. SecondOK(r)'
  <2>1. Taken(r)' = {} /\ Passed(r)' = {}
    BY <1>3, NoPlaces DEF Taken, Passed
  <2>2. 1 \in DOMAIN Route[r] /\ Route' = Route
    BY <1>1, <1>2, RoutePlaces DEF ReadingOK, FirstOK, Route
  <2> QED
    BY <1>3, <2>1, <2>2 DEF SecondOK
<1>8. FirstOK(r)' /\ AnswerOK(r)'
  BY <1>3 DEF FirstOK, AnswerOK
<1> QED
  BY <1>1, <1>2, <1>5, <1>6, <1>7, <1>8, HandlerReads DEF HandlerTypes, ReadTypes, ReadingOK

(* What the second reading does with the record at its place.              *)
LEMMA RereadReads ==
    ASSUME ServiceInv, ReadInv, NEW r \in Requests, Reread(r), UNCHANGED config
    PROVE  ReadInv'
<1> DEFINE i == next[r]
           s == Route[r][i]
           taken == IF Valid(s) THEN Append(records[r], i) ELSE records[r]
<1>1. HandlerTypes /\ CallTypes /\ ReadTypes /\ ReadingOK(r) /\ pc[r] = "reread"
  BY DEF ServiceInv, Types, ReadInv, Reread
<1>2. /\ i \in DOMAIN Route[r] /\ i \in Nat \ {0} /\ s \in Sources
      /\ DOMAIN Route[r] = 1..Len(Route[r]) /\ Len(Route[r]) \in Nat
  BY <1>1, RoutePlaces DEF ReadingOK, SecondOK
<1>3. /\ records' = [records EXCEPT ![r] = taken] /\ next' = [next EXCEPT ![r] = i + 1]
      /\ UNCHANGED <<cache, missing, always, ever>>
  BY DEF Reread, Advance, callVars
<1>4. \/ (Valid(s) \/ r \notin RequireAll) /\ i = Len(Route[r]) /\ Answer(r, taken)
      \/ (Valid(s) \/ r \notin RequireAll) /\ i # Len(Route[r]) /\ UNCHANGED <<pc, status>>
      \/ ~Valid(s) /\ r \in RequireAll /\ Reply(r, "unavailable")
  BY DEF Reread, AtLast
<1>5. PICK p \in {"reread", "audit"}, answer \in Statuses :
        /\ pc' = [pc EXCEPT ![r] = p] /\ status' = [status EXCEPT ![r] = answer]
        /\ \/ /\ Valid(s) \/ r \notin RequireAll
              /\ i = Len(Route[r]) /\ p = "audit"
              /\ (taken = <<>> /\ answer = "unavailable") \/ (taken # <<>> /\ answer # "unavailable")
           \/ (Valid(s) \/ r \notin RequireAll) /\ i # Len(Route[r]) /\ p = "reread"
           \/ ~Valid(s) /\ r \in RequireAll /\ p = "audit" /\ answer = "unavailable"
  <2>1. CASE (Valid(s) \/ r \notin RequireAll) /\ i = Len(Route[r]) /\ Answer(r, taken)
    <3>1. PICK answer \in IF taken = <<>> THEN {"unavailable"} ELSE {"ok", "unrendered"} : Reply(r, answer)
      BY <2>1 DEF Answer
    <3>2. /\ answer \in Statuses
          /\ (taken = <<>> /\ answer = "unavailable") \/ (taken # <<>> /\ answer # "unavailable")
      BY <3>1 DEF Statuses
    <3> QED
      BY <2>1, <3>1, <3>2 DEF Reply, Goto
  <2>2. CASE (Valid(s) \/ r \notin RequireAll) /\ i # Len(Route[r]) /\ UNCHANGED <<pc, status>>
    <3>1. pc' = [pc EXCEPT ![r] = "reread"] /\ status' = [status EXCEPT ![r] = status[r]]
      BY <1>1, <2>2 DEF HandlerTypes, ReadTypes
    <3>2. status[r] \in Statuses
      BY <1>1 DEF ReadTypes
    <3> QED
      BY <2>2, <3>1, <3>2
  <2>3. CASE ~Valid(s) /\ r \in RequireAll /\ Reply(r, "unavailable")
    BY <2>3 DEF Reply, Goto, Statuses
  <2> QED
    BY <1>4, <2>1, <2>2, <2>3
<1>6. records'[r] = taken /\ next'[r] = i + 1 /\ pc'[r] = p /\ status'[r] = answer
  BY <1>1, <1>3, <1>5 DEF HandlerTypes, ReadTypes
<1>7. /\ AllValid' = AllValid /\ Route' = Route /\ RequireAll' = RequireAll
      /\ Valid(s) => s \in ever[r]
      /\ ~Valid(s) => s \notin always[r]
  <2>1. AllValid \subseteq ever[r] /\ always[r] \subseteq AllValid
    BY <1>1 DEF ReadingOK, HistoryOK
  <2> QED
    BY <1>2, <1>3, <2>1 DEF AllValid, Valid, Route, RequireAll
<1>8. /\ records[r] \in Seq(Nat) /\ Increasing(records[r]) /\ ToSet(records[r]) \subseteq 1..(i - 1)
      /\ \A j \in 1..(i - 1) : Route[r][j] \in always[r] => j \in ToSet(records[r])
      /\ r \in RequireAll => ToSet(records[r]) = 1..(i - 1)
  BY <1>1 DEF ReadTypes, ReadingOK, HistoryOK, SecondOK, Taken, Passed
<1>9. /\ taken \in Seq(Nat) /\ Increasing(taken)
      /\ ToSet(taken) = IF Valid(s) THEN ToSet(records[r]) \cup {i} ELSE ToSet(records[r])
  BY <1>2, <1>8, PlaceAppended
<1>10. 1..i = (1..(i - 1)) \cup {i}
  BY <1>2
<1>11. /\ ToSet(taken) \subseteq 1..i
       /\ \A j \in 1..i : Route[r][j] \in always[r] => j \in ToSet(taken)
       /\ r \in RequireAll /\ Valid(s) => ToSet(taken) = 1..i
  BY <1>7, <1>8, <1>9, <1>10
<1> HIDE DEF taken
<1>12. ReadTypes'
  <2>1. records' \in [Requests -> Seq(Nat)]
    BY <1>1, <1>3, <1>9 DEF ReadTypes
  <2> QED
    BY <1>1, <1>3, <1>5, <2>1 DEF ReadTypes
<1>13. HistoryOK(r)'
  <2>1. Collected(r)' \subseteq Collected(r) \cup (IF Valid(s) THEN {s} ELSE {})
    BY <1>6, <1>7, <1>9 DEF Collected
  <2>2. Collected(r)' \subseteq ever'[r]
    BY <1>1, <1>3, <1>7, <2>1 DEF ReadingOK, HistoryOK
  <2>3. Taken(r)' \subseteq DOMAIN Route[r]'
    BY <1>2, <1>6, <1>7, <1>11 DEF Taken
  <2> QED
    BY <1>1, <1>3, <1>6, <1>7, <1>9, <2>2, <2>3 DEF ReadingOK, HistoryOK
<1>14. SecondOK(r)'
  <2> SUFFICES ASSUME p = "reread" PROVE SecondOK(r)'
    BY <1>6 DEF SecondOK
  <2>1. Passed(r)' = 1..i
    <3>1. (i + 1) - 1 = i
      BY <1>2
    <3> QED
      BY <1>6, <3>1 DEF Passed
  <2>2. i + 1 \in DOMAIN Route[r] /\ (r \in RequireAll => Valid(s))
    BY <1>2, <1>5
  <2> QED
    BY <1>3, <1>6, <1>7, <1>11, <2>1, <2>2 DEF SecondOK, Taken
<1>15. AnswerOK(r)'
  <2> SUFFICES ASSUME p = "audit" PROVE AnswerOK(r)'
    BY <1>6 DEF AnswerOK
  <2>1. CASE /\ Valid(s) \/ r \notin RequireAll
             /\ i = Len(Route[r])
             /\ (taken = <<>> /\ answer = "unavailable") \/ (taken # <<>> /\ answer # "unavailable")
    <3>1. 1..i = DOMAIN Route[r]
      BY <1>2, <2>1
    <3>2. answer = "ok" => taken # <<>> /\ (r \in RequireAll => ToSet(taken) = DOMAIN Route[r])
      BY <1>11, <2>1, <3>1
    <3>3. answer = "unavailable" => RouteSources(r) \cap always[r] = {}
      <4> SUFFICES ASSUME answer = "unavailable", NEW q \in RouteSources(r), q \in always[r] PROVE FALSE
        OBVIOUS
      <4>1. PICK j \in DOMAIN Route[r] : q = Route[r][j]
        BY DEF RouteSources, ToSet
      <4>2. j \in ToSet(taken)
        BY <1>11, <3>1, <4>1
      <4> QED
        BY <2>1, <4>2, NoPlaces
    <3> QED
      BY <1>3, <1>6, <1>7, <3>2, <3>3 DEF AnswerOK, Taken, RouteSources
  <2>2. CASE ~Valid(s) /\ r \in RequireAll /\ answer = "unavailable"
    <3>1. s \in RouteSources(r) /\ s \notin always[r]
      BY <1>2, <1>7, <2>2 DEF RouteSources, ToSet
    <3> QED
      BY <1>3, <1>6, <1>7, <2>2, <3>1 DEF AnswerOK, RouteSources
  <2> QED
    BY <1>5, <2>1, <2>2
<1>16. FirstOK(r)'
  BY <1>6 DEF FirstOK
<1> QED
  BY <1>1, <1>3, <1>5, <1>12, <1>13, <1>14, <1>15, <1>16, HandlerReads DEF HandlerTypes, ReadTypes, ReadingOK

LEMMA AuditReads ==
    ASSUME ServiceInv, ReadInv, NEW r \in Requests, Audit(r), UNCHANGED config
    PROVE  ReadInv'
<1>1. /\ pc' = [pc EXCEPT ![r] = "done"] /\ next' = [next EXCEPT ![r] = 0]
      /\ records' = [records EXCEPT ![r] = <<>>] /\ missing' = [missing EXCEPT ![r] = {}]
      /\ always' = [always EXCEPT ![r] = {}] /\ ever' = [ever EXCEPT ![r] = {}]
      /\ status' = [status EXCEPT ![r] = "none"] /\ UNCHANGED cache
  BY DEF Audit, Goto, callVars
<1>2. HandlerTypes /\ ReadTypes
  BY DEF ServiceInv, Types, ReadInv
<1>3. pc'[r] = "done" /\ records'[r] = <<>> /\ always'[r] = {}
  BY <1>1, <1>2 DEF HandlerTypes, ReadTypes
<1>4. ReadTypes'
  <2>1. records' \in [Requests -> Seq(Nat)]
    BY <1>1, <1>2, NoPlaces DEF ReadTypes
  <2> QED
    BY <1>1, <1>2, <2>1 DEF ReadTypes, Statuses
<1>5. HistoryOK(r)'
  <2>1. Collected(r)' = {} /\ Taken(r)' = {}
    BY <1>3, NoPlaces DEF Collected, Taken
  <2> QED
    BY <1>3, <2>1, NoPlaces DEF HistoryOK
<1>6. FirstOK(r)' /\ SecondOK(r)' /\ AnswerOK(r)'
  BY <1>3 DEF FirstOK, SecondOK, AnswerOK
<1> QED
  BY <1>1, <1>2, <1>4, <1>5, <1>6, HandlerReads DEF HandlerTypes, ReadTypes, ReadingOK

----------------------------------------------------------------------------
(* The theorems                                                            *)

LEMMA InitReads == Init => ReadInv
<1> SUFFICES ASSUME Init PROVE ReadInv
  OBVIOUS
<1>1. ReadTypes
  BY NoPlaces DEF Init, RouteInit, ReadTypes, Statuses
<1>2. ASSUME NEW r \in Requests PROVE ReadingOK(r)
  <2>1. pc[r] = "idle" /\ records[r] = <<>> /\ always[r] = {}
    BY DEF Init, RouteInit
  <2>2. Collected(r) = {} /\ Taken(r) = {}
    BY <2>1, NoPlaces DEF Collected, Taken
  <2> QED
    BY <2>1, <2>2, NoPlaces DEF ReadingOK, HistoryOK, FirstOK, SecondOK, AnswerOK
<1> QED
  BY <1>1, <1>2 DEF ReadInv

LEMMA StepReads == ServiceInv /\ ReadInv /\ [Next]_vars => ReadInv'
<1> SUFFICES ASSUME ServiceInv, ReadInv, [Next]_vars PROVE ReadInv'
  OBVIOUS
<1>1. CASE UNCHANGED vars
  BY <1>1, SameReading DEF vars, callVars, routeVars
<1>2. CASE StartUp \/ StartUpDone \/ StartUpFails
  BY <1>2, SameReading DEF StartUp, StartUpDone, StartUpFails, StopTasks, Cancel, callVars, routeVars
<1>3. CASE StopScheduler \/ StopBackground
  BY <1>3, SameReading DEF StopScheduler, StopBackground, StopTasks, Cancel
<1>4. CASE Older \/ Refresh
  BY <1>4, ObservedReading DEF Older, Refresh
<1>5. ASSUME NEW r \in Requests, Handler(r) PROVE ReadInv'
  BY <1>5, ArriveReads, RefuseReads, ReadReads, StartMissingReads, CollectReads, RereadReads, AuditReads
     DEF Handler, Handle
<1>6. ASSUME NEW s \in Sources, Loop(s) PROVE ReadInv'
  BY <1>6, SameReading DEF Loop, LoopWakes, LoopAgain, callVars, routeVars
<1> QED
  BY <1>1, <1>2, <1>3, <1>4, <1>5, <1>6 DEF Next, Ended

LEMMA ReadInvariance == Spec => []ReadInv
BY InitInv, StepInv, InitReads, StepReads, PTL DEF Spec

(* The rest of the type invariant.                                         *)
RestTypes == cache \in [Sources -> Ages] /\ background \subseteq Calls

LEMMA TasksAreCalls ==
    ASSUME ServiceInv, NEW r \in Requests, NEW P \in SUBSET DOMAIN Route[r]
    PROVE  CallsOf(r, P) \subseteq Calls
<1>1. \A i \in P : CallOf(r, i) \in Calls
  BY RoutePlaces, CallKinds DEF ServiceInv, Types, CallOf
<1> QED
  BY <1>1 DEF CallsOf

LEMMA StepTypes == ServiceInv /\ RestTypes /\ [Next]_vars => RestTypes'
<1> SUFFICES ASSUME ServiceInv, RestTypes, [Next]_vars PROVE RestTypes'
  OBVIOUS
<1>1. CASE UNCHANGED vars
  BY <1>1 DEF vars, callVars, routeVars, RestTypes
<1>2. CASE StartUp \/ StartUpDone \/ StartUpFails
  BY <1>2 DEF StartUp, StartUpDone, StartUpFails, StopTasks, Cancel, callVars, routeVars, RestTypes
<1>3. CASE StopScheduler \/ StopBackground
  BY <1>3 DEF StopScheduler, StopBackground, StopTasks, Cancel, Discard, RestTypes
<1>4. CASE Older
  BY <1>4 DEF Older, GetsOlder, RestTypes, Ages
<1>5. CASE Refresh
  <2>1. background' \subseteq Calls
    BY <1>5 DEF Refresh, Discard, RestTypes
  <2>2. ASSUME NEW t \in Calls, Begin(t) PROVE cache' \in [Sources -> Ages]
    BY <2>2 DEF Begin, RestTypes
  <2>3. \A age \in Ages : AfterFailure(age) \subseteq Ages
    BY DEF AfterFailure, Ages
  <2>4. ASSUME NEW t \in Calls, WaitExpires(t) PROVE cache' \in [Sources -> Ages]
    <3>1. SourceOf(t) \in Sources
      BY CallKinds
    <3>2. cache[SourceOf(t)] \in Ages
      BY <3>1 DEF RestTypes
    <3>3. PICK age \in AfterFailure(cache[SourceOf(t)]) \cup {"none", "expired"} :
            cache' = [cache EXCEPT ![SourceOf(t)] = age]
      BY <2>4 DEF WaitExpires
    <3>4. age \in Ages
      BY <2>3, <3>2 DEF Ages
    <3> QED
      BY <3>3, <3>4 DEF RestTypes
  <2>5. ASSUME NEW s \in Sources, JobEnds(s) PROVE cache' \in [Sources -> Ages]
    <3>1. cache[s] \in Ages
      BY DEF RestTypes
    <3>2. PICK age \in Ages : cache' = [cache EXCEPT ![s] = age] \/ UNCHANGED cache
      BY <2>3, <2>5, <3>1 DEF JobEnds, Ages
    <3> QED
      BY <3>2 DEF RestTypes
  <2> QED
    BY <1>5, <2>1, <2>2, <2>4, <2>5 DEF Refresh, RestTypes
<1>6. ASSUME NEW r \in Requests, Handler(r) PROVE RestTypes'
  <2>1. UNCHANGED cache
    BY <1>6 DEF Handler, Handle, Arrive, Refuse, Read, StartMissing, Collect, Reread, Audit, callVars
  <2>2. due'[r] \cup missing[r] \subseteq DOMAIN Route[r]
    <3>1. PlacesOK(r) /\ PlacesOK(r)'
      BY StepInv DEF ServiceInv, HandlersOK
    <3>2. Route' = Route
      BY <1>6 DEF Handler, Route
    <3> QED
      BY <3>1, <3>2 DEF PlacesOK
  <2>3. TaskBySource(r) \subseteq CallsOf(r, missing[r])
    BY DEF TaskBySource, CallsOf
  <2>4. background' \subseteq background \cup CallsOf(r, due'[r]) \cup CallsOf(r, missing[r])
    BY <1>6, <2>3 DEF Handler, Handle, Arrive, Refuse, Read, Spawn, StartMissing, Collect, Reread, Audit
  <2> QED
    BY <2>1, <2>2, <2>4, TasksAreCalls DEF RestTypes
<1>7. ASSUME NEW s \in Sources, Loop(s) PROVE RestTypes'
  BY <1>7 DEF Loop, LoopWakes, LoopAgain, callVars, routeVars, RestTypes
<1> QED
  BY <1>1, <1>2, <1>3, <1>4, <1>5, <1>6, <1>7 DEF Next, Ended

(* The variables of the server stay within their types: a request collects *)
(* only places of its own route.                                           *)
THEOREM ServiceTypes == Spec => []TypeOK
<1>1. Init => RestTypes
  BY DEF Init, CallsInit, RouteInit, RestTypes
<1>2. ServiceInv /\ ReadInv /\ RestTypes => TypeOK
  <2> SUFFICES ASSUME ServiceInv, ReadInv, RestTypes PROVE TypeOK
    OBVIOUS
  <2>1. CallsTypeOK /\ SchedulerTypeOK /\ phase \in Phases
    BY CallKinds DEF ServiceInv, Types, CallTypes, LifeTypes, RestTypes, CallsTypeOK, SchedulerTypeOK
  <2>2. ASSUME NEW r \in Requests
        PROVE  /\ records[r] \in Seq(DOMAIN Route[r])
               /\ due[r] \subseteq Places /\ missing[r] \subseteq Places
    <3>1. records[r] \in Seq(Nat) /\ \A i \in DOMAIN records[r] : records[r][i] \in DOMAIN Route[r]
      BY DEF ReadInv, ReadTypes, ReadingOK, HistoryOK, Taken, ToSet
    <3>2. due[r] \cup missing[r] \subseteq Places
      BY RoutePlaces DEF ServiceInv, Types, HandlersOK, PlacesOK
    <3> QED
      BY <3>1, <3>2
  <2>3. RouteTypeOK
    <3>1. due \in [Requests -> SUBSET Places] /\ missing \in [Requests -> SUBSET Places]
      BY <2>2 DEF ServiceInv, Types, HandlerTypes
    <3> QED
      BY <2>2, <3>1 DEF ServiceInv, Types, HandlerTypes, ReadInv, ReadTypes, RestTypes, RouteTypeOK
  <2> QED
    BY <2>1, <2>3 DEF TypeOK
<1> QED
  BY <1>1, <1>2, StepTypes, Invariance, ReadInvariance, PTL DEF Spec

(* However the readings and the refreshes between them go, an answer has   *)
(* each place of its route at most once and in order, and on a route that  *)
(* requires all its sources it has each (app.py:502-539).                  *)
THEOREM OnePass == Spec => []AnswersAreOnePass
<1>1. ReadInv => AnswersAreOnePass
  <2> SUFFICES ASSUME ReadInv, NEW r \in Requests, status[r] = "ok", pc[r] = "audit"
               PROVE  /\ \A i, j \in DOMAIN records[r] : i < j => records[r][i] < records[r][j]
                      /\ r \in RequireAll => ToSet(records[r]) = DOMAIN Route[r]
    BY DEF AnswersAreOnePass
  <2> QED
    BY DEF ReadInv, ReadingOK, HistoryOK, AnswerOK, Increasing, Taken
<1> QED
  BY <1>1, ReadInvariance, PTL

(* No answer holds a record that was expired all through its reading, and  *)
(* none is empty (app.py:467-476, 524-555).                                *)
THEOREM ServesNothingExpired == Spec => []NothingExpiredServed
<1>1. ReadInv => NothingExpiredServed
  BY DEF ReadInv, ReadingOK, HistoryOK, AnswerOK, NothingExpiredServed
<1> QED
  BY <1>1, ReadInvariance, PTL

(* A request that is turned away had nothing that was valid all through    *)
(* its reading, or lacked one where all were required (app.py:491-555).    *)
THEOREM ServesValid == Spec => []ServesWhatIsValid
<1>1. ReadInv => ServesWhatIsValid
  BY DEF ReadInv, ReadingOK, AnswerOK, ServesWhatIsValid
<1> QED
  BY <1>1, ReadInvariance, PTL
=============================================================================
