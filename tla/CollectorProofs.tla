--------------------------- MODULE CollectorProofs ---------------------------
(***************************************************************************)
(* The capacity rule of TemplateRetention, and with it the collector's two *)
(* promises, for any number of exporters, definitions and datagrams and    *)
(* any capacity.  A template whose exporter refreshes it before Capacity   *)
(* others have been refreshed is never evicted; a data set is decoded      *)
(* under a definition of its own exporter or not at all, and it is not     *)
(* decoded only if its template is unknown or has been pushed out by the   *)
(* others.                                                                 *)
(***************************************************************************)
EXTENDS Collector, SessionTemplateStoreProofs

-----------------------------------------------------------------------------
(* The capacity rule.                                                      *)

\* The history variables only watch: every step is a step of the store.
LEMMA WatchedStep == [RetentionNext]_<<vars, historyVars>> => [Next]_vars
BY DEF RetentionNext, InsertObserved, RemoveObserved, RemoveSessionObserved, Next, vars

\* An accepted insertion adds one rival to every key but its own.
LEMMA AcceptedRivals ==
    ASSUME RetentionInv, NEW key \in Keys, ObserveAccepted(key)
    PROVE  /\ announced' \subseteq Keys
           /\ rivals' \in [Keys -> SUBSET Keys]
           /\ \A k \in Keys : IsFiniteSet(rivals'[k])
           /\ \A k \in Keys \ {key} :
                  /\ rivals'[k] = rivals[k] \cup {key}
                  /\ Cardinality(rivals[k]) \in Nat
                  /\ Cardinality(rivals'[k]) \in Nat
                  /\ Cardinality(rivals'[k]) >= Cardinality(rivals[k])
           /\ rivals'[key] = {}
<1>. USE DEF RetentionInv, ObserveAccepted
<1>1. /\ announced' \subseteq Keys
      /\ rivals' \in [Keys -> SUBSET Keys]
      /\ rivals'[key] = {}
      /\ \A k \in Keys \ {key} : rivals'[k] = rivals[k] \cup {key}
    OBVIOUS
<1>2. IsFiniteSet(rivals'[key])
    BY <1>1, FS_EmptySet
<1>3. ASSUME NEW k \in Keys \ {key}
      PROVE  /\ IsFiniteSet(rivals'[k])
             /\ Cardinality(rivals[k]) \in Nat
             /\ Cardinality(rivals'[k]) \in Nat
             /\ Cardinality(rivals'[k]) >= Cardinality(rivals[k])
    <2>1. IsFiniteSet(rivals[k]) /\ rivals'[k] = rivals[k] \cup {key}
        BY <1>1
    <2>2. IsFiniteSet(rivals'[k])
        BY <2>1, FS_AddElement
    <2>3. Cardinality(rivals[k]) \in Nat /\ Cardinality(rivals'[k]) \in Nat
        BY <2>1, <2>2, FS_CardinalityType
    <2>4. Cardinality(rivals[k]) <= Cardinality(rivals'[k])
        BY <2>1, <2>2, FS_Subset
    <2>. QED  BY <2>2, <2>3, <2>4
<1>. QED  BY <1>1, <1>2, <1>3

\* A refresh costs nobody an entry.
LEMMA RefreshRetains ==
    ASSUME IndInv, RetentionInv, to_remove' = {},
           NEW key \in Keys, NEW record \in Template, record.id = key[3],
           Refresh(key, record), ObserveAccepted(key)
    PROVE  RetentionInv'
<1>1. /\ templates' = templates /\ key \in DOMAIN templates
      /\ EarlierIn(recency') = Cache!Newest(key, DOMAIN templates \ {key})
      /\ DOMAIN templates \subseteq Keys
    BY RefreshConfirms DEF Cache!Confirm, Refresh, IndInv, TypeOK
<1>2. ListFollowsRefreshes'
    <2>. SUFFICES ASSUME NEW pair \in EarlierIn(recency')
                  PROVE  rivals'[pair[2]] \cup {pair[2]} \subseteq rivals'[pair[1]]
        BY DEF ListFollowsRefreshes
    <2>1. CASE /\ pair \in EarlierIn(recency)
               /\ pair[1] \in DOMAIN templates \ {key}
               /\ pair[2] \in DOMAIN templates \ {key}
        BY <1>1, <2>1, AcceptedRivals DEF RetentionInv, ListFollowsRefreshes
    <2>2. CASE pair[1] \in DOMAIN templates \ {key} /\ pair[2] = key
        BY <1>1, <2>2, AcceptedRivals
    <2>. QED  BY <1>1, <2>1, <2>2 DEF Cache!Newest
<1>3. ActiveTemplatesSurvive'
    <2>. SUFFICES ASSUME NEW k \in announced', Cardinality(rivals'[k]) < Capacity
                  PROVE  k \in DOMAIN templates
        BY <1>1 DEF ActiveTemplatesSurvive
    <2>1. CASE k = key
        BY <1>1, <2>1
    <2>2. CASE k # key
        <3>1. k \in announced /\ k \in Keys
            BY <2>2 DEF ObserveAccepted, RetentionInv
        <3>2. Cardinality(rivals[k]) < Capacity
            BY <2>2, <3>1, AcceptedRivals, CapacityAssumption
        <3>. QED  BY <3>1, <3>2 DEF RetentionInv, ActiveTemplatesSurvive
    <2>. QED  BY <2>1, <2>2
<1>. QED  BY <1>2, <1>3, AcceptedRivals DEF RetentionInv

\* An installation costs an entry that has as many rivals as there are places.
LEMMA InstallRetains ==
    ASSUME IndInv, RetentionInv, to_remove' = {},
           NEW key \in Keys, NEW record \in Template,
           Install(key, record), ObserveAccepted(key)
    PROVE  RetentionInv'
<1>1. /\ DOMAIN templates \subseteq Keys
      /\ recency \in Seq(Keys) /\ IsInjective(recency)
      /\ Range(recency) = DOMAIN templates /\ key \notin DOMAIN templates
      /\ Len(recency) \in Nat /\ Len(recency) <= Capacity
    BY LenProperties DEF IndInv, TypeOK, ListMatchesTable, Install
<1>2. CASE Capacity = 0
    <2>1. recency' = recency
        BY <1>2 DEF Install, LruInsert
    <2>2. Range(recency) = {}
        BY <1>1, <1>2 DEF Range
    <2>3. ListFollowsRefreshes'
        BY <2>1, <2>2 DEF ListFollowsRefreshes, EarlierIn
    <2>4. ActiveTemplatesSurvive'
        <3>. SUFFICES ASSUME NEW k \in announced'
                      PROVE  ~(Cardinality(rivals'[k]) < Capacity)
            BY DEF ActiveTemplatesSurvive
        <3>1. k \in Keys /\ IsFiniteSet(rivals'[k])
            BY AcceptedRivals
        <3>2. Cardinality(rivals'[k]) \in Nat
            BY <3>1, FS_CardinalityType
        <3>. QED  BY <1>2, <3>2
    <2>. QED  BY <2>3, <2>4, AcceptedRivals DEF RetentionInv
<1>3. CASE Capacity # 0
    <2>. DEFINE kept == MakeRoom(recency)
    <2>1. Capacity > 0
        BY <1>3, CapacityAssumption
    <2>2. /\ kept \in Seq(Keys) /\ IsInjective(kept)
          /\ Range(kept) \subseteq DOMAIN templates
          /\ EarlierIn(kept) \subseteq EarlierIn(recency)
          /\ \A pair \in EarlierIn(kept) :
                 pair[1] \in Range(kept) /\ pair[2] \in Range(kept)
          /\ ~(Len(recency) < Capacity) =>
                 Range(kept) = DOMAIN templates \ {Last(recency)}
          /\ Len(recency) < Capacity => Range(kept) = DOMAIN templates
        BY <1>1, <2>1, RoomMade, KeptKeys
    <2>3. recency' = Cons(key, kept) /\ DOMAIN templates' = Range(kept) \cup {key}
        BY <1>3 DEF Install, LruInsert
    <2>. HIDE DEF kept
    <2>4. EarlierIn(recency') = EarlierIn(kept) \cup (Range(kept) \X {key})
        BY <1>1, <2>2, <2>3, EarlierInCons
    <2>5. ListFollowsRefreshes'
        <3>. SUFFICES ASSUME NEW pair \in EarlierIn(recency')
                      PROVE  rivals'[pair[2]] \cup {pair[2]} \subseteq rivals'[pair[1]]
            BY DEF ListFollowsRefreshes
        <3>1. CASE pair \in EarlierIn(kept)
            <4>1. /\ pair[1] \in Keys \ {key} /\ pair[2] \in Keys \ {key}
                  /\ rivals[pair[2]] \cup {pair[2]} \subseteq rivals[pair[1]]
                BY <1>1, <2>2, <3>1 DEF RetentionInv, ListFollowsRefreshes
            <4>. QED  BY <4>1, AcceptedRivals
        <3>2. CASE pair[1] \in Range(kept) /\ pair[2] = key
            <4>1. pair[1] \in Keys \ {key}
                BY <1>1, <2>2, <3>2
            <4>. QED  BY <3>2, <4>1, AcceptedRivals
        <3>. QED  BY <2>4, <3>1, <3>2
    <2>6. ASSUME ~(Len(recency) < Capacity)
          PROVE  /\ Last(recency) \in Keys \ {key}
                 /\ Cardinality(rivals'[Last(recency)]) >= Capacity
        <3>. DEFINE tail == Last(recency)
        <3>1. Len(recency) = Capacity
            BY <1>1, <2>6, CapacityAssumption
        <3>2. tail \in DOMAIN templates /\ tail \in Keys \ {key}
            <4>1. DOMAIN recency = 1..Len(recency) /\ Len(recency) \in 1..Len(recency)
                BY <1>1, <2>1, <3>1, LenProperties, CapacityAssumption
            <4>. QED  BY <1>1, <4>1 DEF Last, Range
        <3>3. \A other \in DOMAIN templates \ {tail} : other \in rivals[tail]
            <4>1. IndexOf(recency, tail) = Len(recency)
                <5>1. Len(recency) \in 1..Len(recency)
                    BY <1>1, <2>1, <3>1, CapacityAssumption
                <5>. QED  BY <1>1, <5>1, IndexOfElement DEF Last
            <4>2. ASSUME NEW other \in DOMAIN templates \ {tail}
                  PROVE  <<tail, other>> \in EarlierIn(recency)
                <5>1. /\ IndexOf(recency, other) \in 1..Len(recency)
                      /\ recency[IndexOf(recency, other)] = other
                    BY <1>1, IndexOfKey
                <5>2. IndexOf(recency, other) # Len(recency)
                    BY <5>1 DEF Last
                <5>. QED  BY <1>1, <3>2, <4>1, <5>1, <5>2 DEF EarlierIn
            <4>. QED  BY <4>2 DEF RetentionInv, ListFollowsRefreshes
        <3>. HIDE DEF tail
        <3>. DEFINE others == DOMAIN templates \ {tail}
        <3>4. others \cup {key} \subseteq rivals'[tail]
            BY <3>2, <3>3, AcceptedRivals
        <3>5. IsFiniteSet(others) /\ Cardinality(others) = Capacity - 1
            BY <3>1, <3>2, TableSize, FS_RemoveElement
        <3>6. IsFiniteSet(others \cup {key}) /\ Cardinality(others \cup {key}) = Capacity
            <4>1. key \notin others
                BY <1>1
            <4>2. Cardinality(others \cup {key}) = (Capacity - 1) + 1
                BY <3>5, <4>1, FS_AddElement
            <4>. QED  BY <3>5, <4>2, FS_AddElement, CapacityAssumption
        <3>. HIDE DEF others
        <3>7. IsFiniteSet(rivals'[tail])
            BY <3>2, AcceptedRivals
        <3>8. Cardinality(others \cup {key}) <= Cardinality(rivals'[tail])
            BY <3>4, <3>7, FS_Subset
        <3>9. Cardinality(rivals'[tail]) \in Nat
            BY <3>7, FS_CardinalityType
        <3>. QED  BY <3>2, <3>6, <3>8, <3>9, CapacityAssumption DEF tail
    <2>7. ActiveTemplatesSurvive'
        <3>. SUFFICES ASSUME NEW k \in announced', Cardinality(rivals'[k]) < Capacity
                      PROVE  k \in DOMAIN templates'
            BY DEF ActiveTemplatesSurvive
        <3>1. CASE k = key
            BY <2>3, <3>1
        <3>2. CASE k # key
            <4>1. k \in announced /\ k \in Keys
                BY <3>2 DEF ObserveAccepted, RetentionInv
            <4>2. Cardinality(rivals[k]) < Capacity
                BY <3>2, <4>1, AcceptedRivals, CapacityAssumption
            <4>3. k \in DOMAIN templates
                BY <4>1, <4>2 DEF RetentionInv, ActiveTemplatesSurvive
            <4>4. CASE Len(recency) < Capacity
                BY <2>2, <2>3, <4>3, <4>4
            <4>5. CASE ~(Len(recency) < Capacity)
                <5>1. k # Last(recency)
                    <6>1. Cardinality(rivals'[k]) \in Nat
                        BY <3>2, <4>1, AcceptedRivals
                    <6>. QED  BY <2>6, <4>5, <6>1, CapacityAssumption
                <5>. QED  BY <2>2, <2>3, <4>3, <4>5, <5>1
            <4>. QED  BY <4>4, <4>5
        <3>. QED  BY <3>1, <3>2
    <2>. QED  BY <2>5, <2>7, AcceptedRivals DEF RetentionInv
<1>. QED  BY <1>2, <1>3

\* Removing a key nobody announces any more costs no announced key its entry.
LEMMA RemovalRetains ==
    ASSUME IndInv, RetentionInv, NEW key, LruRemove(key),
           announced' \subseteq announced \ {key}, to_remove' \subseteq to_remove,
           UNCHANGED rivals
    PROVE  RetentionInv'
<1>1. DOMAIN templates' = DOMAIN templates \ {key}
    BY LruRemoveFacts
<1>2. EarlierIn(recency') \subseteq EarlierIn(recency)
    <2>1. recency \in Seq(Keys) /\ IsInjective(recency) /\ Range(recency) = DOMAIN templates
        BY DEF IndInv, TypeOK, ListMatchesTable
    <2>2. CASE key \in DOMAIN templates
        BY <2>1, <2>2, EarlierInUnlink DEF LruRemove
    <2>3. CASE key \notin DOMAIN templates
        BY <2>3 DEF LruRemove
    <2>. QED  BY <2>2, <2>3
<1>3. ListFollowsRefreshes'
    BY <1>2 DEF RetentionInv, ListFollowsRefreshes
<1>4. ActiveTemplatesSurvive'
    BY <1>1 DEF RetentionInv, ActiveTemplatesSurvive
<1>. QED  BY <1>3, <1>4 DEF RetentionInv

LEMMA RetentionAtInit == RetentionInit => RetentionInv
<1>. SUFFICES ASSUME RetentionInit  PROVE RetentionInv
    OBVIOUS
<1>1. EarlierIn(recency) = {}
    <2>1. Range(recency) = {}
        BY DEF RetentionInit, Init, Range
    <2>. QED  BY <2>1 DEF EarlierIn
<1>2. rivals \in [Keys -> SUBSET Keys] /\ \A key \in Keys : rivals[key] = {}
    BY DEF RetentionInit
<1>. QED  BY <1>1, <1>2, FS_EmptySet
          DEF RetentionInit, Init, RetentionInv, ListFollowsRefreshes, ActiveTemplatesSurvive

LEMMA RetentionByNext ==
    ASSUME IndInv, RetentionInv, [RetentionNext]_<<vars, historyVars>>
    PROVE  RetentionInv'
<1>1. ASSUME NEW session \in Sessions, NEW odid \in Odids, NEW record \in Template,
             InsertObserved(session, odid, record)
      PROVE  RetentionInv'
    <2>. DEFINE key == <<session, odid, record.id>>
    <2>1. key \in Keys /\ record.id = key[3]
        BY KeyOfRecord
    <2>2. /\ to_remove' = {}
          /\ Collide(key, record) \/ Refresh(key, record) \/ Install(key, record)
        BY <1>1 DEF InsertObserved, Insert, Idle
    <2>3. IF call'.outcome = "Collision" THEN UNCHANGED historyVars ELSE ObserveAccepted(key)
        BY <1>1 DEF InsertObserved
    <2>. HIDE DEF key
    <2>4. CASE Collide(key, record)
        BY <2>2, <2>3, <2>4 DEF Collide, Returns, historyVars, RetentionInv,
                                ListFollowsRefreshes, ActiveTemplatesSurvive
    <2>5. CASE Refresh(key, record)
        <3>1. ObserveAccepted(key)
            BY <2>3, <2>5 DEF Refresh, Returns
        <3>. QED  BY <2>1, <2>2, <2>5, <3>1, RefreshRetains
    <2>6. CASE Install(key, record)
        <3>1. ObserveAccepted(key)
            BY <2>3, <2>6 DEF Install, Returns
        <3>. QED  BY <2>1, <2>2, <2>6, <3>1, InstallRetains
    <2>. QED  BY <2>2, <2>4, <2>5, <2>6
<1>2. ASSUME NEW session \in Sessions, NEW odid \in Odids, NEW id \in TemplateIds,
             RemoveObserved(session, odid, id)
      PROVE  RetentionInv'
    <2>. DEFINE key == <<session, odid, id>>
    <2>1. /\ LruRemove(key) /\ UNCHANGED to_remove
          /\ announced' = announced \ {key} /\ UNCHANGED rivals
        BY <1>2 DEF RemoveObserved, RemoveTemplate, ObserveRemoval
    <2>. HIDE DEF key
    <2>. QED  BY <2>1, RemovalRetains
<1>3. ASSUME NEW session \in Sessions, RemoveSessionObserved(session)
      PROVE  RetentionInv'
    <2>1. /\ UNCHANGED <<templates, recency, rivals>>
          /\ announced' = {key \in announced : SessionOf(key) # session}
          /\ to_remove' = {key \in DOMAIN templates : SessionOf(key) = session}
        BY <1>3 DEF RemoveSessionObserved, RemoveSession
    <2>. QED  BY <2>1 DEF RetentionInv, ListFollowsRefreshes, ActiveTemplatesSurvive
<1>4. CASE RemoveCollected /\ UNCHANGED historyVars
    <2>1. PICK key \in to_remove : LruRemove(key) /\ to_remove' = to_remove \ {key}
        BY <1>4 DEF RemoveCollected
    <2>2. announced' \subseteq announced \ {key} /\ UNCHANGED rivals
        BY <1>4 DEF historyVars, RetentionInv
    <2>. QED  BY <2>1, <2>2, RemovalRetains
<1>5. CASE UNCHANGED <<templates, recency, to_remove, historyVars>>
    BY <1>5 DEF historyVars, RetentionInv, ListFollowsRefreshes, ActiveTemplatesSurvive
<1>. QED  BY <1>1, <1>2, <1>3, <1>4, <1>5 DEF RetentionNext, Get, vars

\* A template that was announced and not removed stays in the store as long as
\* fewer than Capacity others were refreshed since its own last refresh.
THEOREM Retention == RetentionSpec => [](ActiveTemplatesSurvive /\ ListFollowsRefreshes)
<1>1. RetentionInit => IndInv /\ RetentionInv
    BY InitInv, RetentionAtInit DEF RetentionInit
<1>2. IndInv /\ RetentionInv /\ [RetentionNext]_<<vars, historyVars>>
          => (IndInv /\ RetentionInv)'
    BY WatchedStep, NextInv, RetentionByNext
<1>3. RetentionInv => ActiveTemplatesSurvive /\ ListFollowsRefreshes
    BY DEF RetentionInv
<1>. QED  BY <1>1, <1>2, <1>3, PTL DEF RetentionSpec

\* The list orders the entries as their refreshes came.
THEOREM FollowsRefreshes == RetentionSpec => []ListFollowsRefreshes
<1>. QED  BY Retention, PTL

-----------------------------------------------------------------------------
(* Datagrams.                                                              *)

LEMMA SeqMonotone ==
    ASSUME NEW S, NEW T, S \subseteq T
    PROVE  Seq(S) \subseteq Seq(T)
<1>. SUFFICES ASSUME NEW s \in Seq(S)  PROVE s \in Seq(T)
    OBVIOUS
<1>1. Len(s) \in Nat /\ s \in [1..Len(s) -> S]
    BY LenProperties
<1>2. s \in [1..Len(s) -> T]
    BY <1>1
<1>. QED  BY <1>1, <1>2, SeqDef

LEMMA PayloadMonotone ==
    ASSUME NEW C, NEW D, C \subseteq D
    PROVE  Seq(Payload(C)) \subseteq Seq(Payload(D))
<1>1. Seq(C \cup {Bad}) \subseteq Seq(D \cup {Bad})
    BY SeqMonotone
<1>2. Payload(C) \subseteq Payload(D)
    BY <1>1 DEF Payload
<1>. QED  BY <1>2, SeqMonotone

\* An exporter sends what it has defined, and damage.
LEMMA SentIsPayload ==
    ASSUME NEW e \in Exporters
    PROVE  SetsOf(e) \subseteq Payload(used[e])
<1>. DEFINE D == used[e]
<1>1. ASSUME NEW C, C \subseteq D  PROVE Announcements(C) \subseteq Seq(D \cup {Bad})
    <2>1. ASSUME NEW d \in D \cup {Bad}, NEW f \in D \cup {Bad}, NEW g \in D \cup {Bad}
          PROVE  /\ <<d>> \in Seq(D \cup {Bad})
                 /\ <<d, f>> \in Seq(D \cup {Bad})
                 /\ <<d, f, g>> \in Seq(D \cup {Bad})
        OBVIOUS
    <2>. SUFFICES ASSUME NEW a \in Announcements(C)  PROVE a \in Seq(D \cup {Bad})
        OBVIOUS
    <2>2. CASE a \in {<<d>> : d \in C} \cup {<<d, Bad, d>> : d \in C}
        BY <1>1, <2>1, <2>2
    <2>3. CASE a \in {<<pair[1], pair[2]>> : pair \in {p \in C \X C : p[1] # p[2]}}
        <3>1. PICK pair \in C \X C : a = <<pair[1], pair[2]>>
            BY <2>3
        <3>2. pair[1] \in D \cup {Bad} /\ pair[2] \in D \cup {Bad}
            BY <1>1
        <3>. QED  BY <2>1, <3>1, <3>2
    <2>. QED  BY <2>2, <2>3 DEF Announcements
<1>2. /\ Announcements({d \in D : ~IsOptions(d)}) \subseteq Seq(D \cup {Bad})
      /\ Announcements({d \in D : IsOptions(d)}) \subseteq Seq(D \cup {Bad})
    BY <1>1
<1>3. DataSizes \subseteq Nat
    BY CollectorAssumption DEF CollectorAssumption
<1>. HIDE DEF D
<1>4. ASSUME NEW d \in D, NEW n \in DataSizes
      PROVE  DataSet(d, n) \in {DataSet(f, m) : f \in D, m \in Nat}
    BY <1>3
<1>5. ASSUME NEW set \in SetsOf(e)  PROVE set \in Payload(D)
    <2>1. CASE set \in {TemplateSet(a) : a \in Announcements({d \in D : ~IsOptions(d)})}
        <3>1. PICK a \in Announcements({d \in D : ~IsOptions(d)}) : set = TemplateSet(a)
            BY <2>1, Zenon
        <3>2. a \in Seq(D \cup {Bad})
            BY <1>2, <3>1, Zenon
        <3>. QED  BY <3>1, <3>2 DEF Payload
    <2>2. CASE set \in {OptionsTemplateSet(a) : a \in Announcements({d \in D : IsOptions(d)})}
        <3>1. PICK a \in Announcements({d \in D : IsOptions(d)}) : set = OptionsTemplateSet(a)
            BY <2>2, Zenon
        <3>2. a \in Seq(D \cup {Bad})
            BY <1>2, <3>1, Zenon
        <3>. QED  BY <3>1, <3>2 DEF Payload
    <2>3. CASE \E d \in D : \E n \in DataSizes : set = DataSet(d, n)
        BY <1>4, <2>3 DEF Payload
    <2>4. CASE set = MalformedSet
        BY <2>4 DEF Payload
    <2>. QED  BY <1>5, <2>1, <2>2, <2>3, <2>4 DEF SetsOf, D
<1>. QED  BY <1>5 DEF D

\* What is in a set of the datagram in hand, and what is left of it.
LEMMA InHand ==
    ASSUME NEW D, NEW set \in Payload(D)
    PROVE  /\ set.kind \in {"Template", "OptionsTemplate"} =>
                  set.records \in Seq(D \cup {Bad})
           /\ set.kind = "Data" => set.definition \in D /\ set.bytes \in Nat
BY DEF Payload, TemplateSet, OptionsTemplateSet, DataSet, MalformedSet

LEMMA LeftOver ==
    ASSUME NEW D, NEW set \in Payload(D), set.kind \in {"Template", "OptionsTemplate"},
           NEW records \in Seq(D \cup {Bad})
    PROVE  [kind |-> set.kind, records |-> records] \in Payload(D)
<1>1. TemplateSet(records) \in Payload(D) /\ OptionsTemplateSet(records) \in Payload(D)
    BY DEF Payload
<1>. QED  BY <1>1 DEF TemplateSet, OptionsTemplateSet

LEMMA ScopeKey ==
    ASSUME NEW e \in Exporters, NEW id \in TemplateIds
    PROVE  /\ KeyIn(Scope(e), id) = <<Address[e], Domain[e], id>>
           /\ KeyIn(Scope(e), id) \in Keys
           /\ Scope(e)[1] = Address[e] /\ Scope(e)[2] = Domain[e]
           /\ Address[e] \in Sessions /\ Domain[e] \in Odids
<1>1. Address[e] \in Sessions /\ Domain[e] \in Odids
    BY CollectorAssumption DEF CollectorAssumption
<1>. QED  BY <1>1 DEF Scope, KeyIn, Keys

-----------------------------------------------------------------------------
(* Steps.                                                                  *)

\* An insertion changes no entry but its own.
LEMMA InsertFiles ==
    ASSUME IndInv, NEW session \in Sessions, NEW odid \in Odids, NEW record \in Template,
           Insert(session, odid, record), NEW key \in DOMAIN templates'
    PROVE  \/ key \in DOMAIN templates /\ templates'[key] = templates[key]
           \/ key = <<session, odid, record.id>> /\ templates'[key] = record
<1>. DEFINE own == <<session, odid, record.id>>
<1>1. Collide(own, record) \/ Refresh(own, record) \/ Install(own, record)
    BY DEF Insert
<1>. HIDE DEF own
<1>2. CASE Collide(own, record) \/ Refresh(own, record)
    BY <1>2 DEF Collide, Refresh
<1>3. CASE Install(own, record)
    <2>1. CASE Capacity = 0
        BY <1>3, <2>1 DEF Install, LruInsert
    <2>2. CASE Capacity # 0
        <3>1. Capacity > 0
            BY <2>2, CapacityAssumption
        <3>2. /\ recency \in Seq(Keys) /\ IsInjective(recency) /\ Len(recency) <= Capacity
              /\ Range(recency) = DOMAIN templates
            BY DEF IndInv, TypeOK, ListMatchesTable
        <3>3. Range(MakeRoom(recency)) \subseteq DOMAIN templates
            BY <3>1, <3>2, RoomMade
        <3>4. templates' = [k \in Range(MakeRoom(recency)) \cup {own} |->
                                IF k = own THEN record ELSE templates[k]]
            BY <1>3, <2>2 DEF Install, LruInsert
        <3>. QED  BY <3>3, <3>4 DEF own
    <2>. QED  BY <2>1, <2>2
<1>. QED  BY <1>1, <1>2, <1>3

\* What a step leaves of the datagram in hand is still its sender's.
LEMMA NextSetKeeps ==
    ASSUME CollectorInv, used' = used, ~Waiting,
           NEW sets \in Seq(Payload(used[work.exporter])), Len(sets) <= Len(work.sets),
           NextSetIs(sets)
    PROVE  /\ work'.exporter = work.exporter
           /\ work'.sets \in Seq(Payload(used'[work'.exporter]))
           /\ Len(work'.sets) <= MaxSets
<1>1. work'.exporter = work.exporter /\ work'.sets = sets
    BY DEF NextSetIs
<1>2. Len(sets) \in Nat /\ Len(work.sets) \in Nat /\ Len(work.sets) <= MaxSets
    BY LenProperties DEF CollectorInv
<1>3. Len(sets) <= MaxSets
    BY <1>2, CollectorAssumption DEF CollectorAssumption
<1>. QED  BY <1>1, <1>3

LEMMA SetsInHand ==
    ASSUME CollectorInv, ~Waiting
    PROVE  /\ Current \in Payload(used[work.exporter])
           /\ Tail(work.sets) \in Seq(Payload(used[work.exporter]))
           /\ Len(Tail(work.sets)) <= Len(work.sets)
           /\ <<>> \in Seq(Payload(used[work.exporter]))
           /\ Len(<<>>) <= Len(work.sets)
           /\ \A set \in Payload(used[work.exporter]) :
                  /\ <<set>> \o Tail(work.sets) \in Seq(Payload(used[work.exporter]))
                  /\ Len(<<set>> \o Tail(work.sets)) <= Len(work.sets)
<1>. DEFINE P == Payload(used[work.exporter])
<1>1. work.sets \in Seq(P) /\ work.sets # <<>>
    BY DEF CollectorInv, Waiting
<1>. HIDE DEF P
<1>2. /\ Head(work.sets) \in P /\ Tail(work.sets) \in Seq(P)
      /\ Len(Tail(work.sets)) = Len(work.sets) - 1
      /\ Len(work.sets) \in Nat /\ Len(work.sets) >= 1
    BY <1>1, HeadTailProperties, LenProperties
<1>3. ASSUME NEW set \in P
      PROVE  /\ <<set>> \o Tail(work.sets) \in Seq(P)
             /\ Len(<<set>> \o Tail(work.sets)) = Len(work.sets)
    <2>1. <<set>> \in Seq(P) /\ Len(<<set>>) = 1
        OBVIOUS
    <2>. QED  BY <1>2, <2>1, ConcatProperties
<1>. QED  BY <1>2, <1>3 DEF P, Current

-----------------------------------------------------------------------------
(* The invariant.                                                          *)

LEMMA CollectorAtInit == CollectorInit => CollectorInv
<1>. SUFFICES ASSUME CollectorInit  PROVE CollectorInv
    OBVIOUS
<1>1. /\ used \in [Exporters -> SUBSET Template]
      /\ work.exporter \in Exporters /\ work.sets = <<>>
      /\ fate.result = "none" /\ DOMAIN templates = {} /\ stopped = FALSE
    BY CollectorAssumption
       DEF CollectorInit, CollectorAssumption, NoFate, RetentionInit, Init
<1>2. work.sets \in Seq(Payload(used[work.exporter])) /\ Len(work.sets) <= MaxSets
    BY <1>1, CollectorAssumption DEF CollectorAssumption
<1>. QED  BY <1>1, <1>2 DEF CollectorInv, FiledByExporter, DecodedAsExported, KnownDataIsDecoded

LEMMA RedefineInv ==
    ASSUME CollectorInv, NEW e \in Exporters, Redefine(e)
    PROVE  CollectorInv'
<1>1. /\ used' \in [Exporters -> SUBSET Template]
      /\ \A x \in Exporters : used[x] \subseteq used'[x]
      /\ UNCHANGED <<templates, recency, to_remove, call, announced, rivals, work, fate, stopped>>
    <2>1. PICK definition \in LaterUse[e] :
              used' = [used EXCEPT ![e] = @ \cup {definition}]
        BY DEF Redefine
    <2>2. definition \in Template
        BY CollectorAssumption DEF CollectorAssumption
    <2>3. used \in [Exporters -> SUBSET Template]
        BY DEF CollectorInv
    <2>. QED  BY <2>1, <2>2, <2>3 DEF Redefine, vars, historyVars
<1>2. work'.sets \in Seq(Payload(used'[work'.exporter]))
    <2>1. work.exporter \in Exporters /\ work.sets \in Seq(Payload(used[work.exporter]))
        BY DEF CollectorInv
    <2>. QED  BY <1>1, <2>1, PayloadMonotone
<1>3. FiledByExporter'
    BY <1>1 DEF CollectorInv, FiledByExporter, Scope
<1>4. DecodedAsExported'
    BY <1>1 DEF CollectorInv, DecodedAsExported, NotRedefined
<1>5. KnownDataIsDecoded'
    BY <1>1 DEF CollectorInv, KnownDataIsDecoded
<1>. QED  BY <1>1, <1>2, <1>3, <1>4, <1>5 DEF CollectorInv, Decoding, Current, Waiting

LEMMA ReceiveInv ==
    ASSUME CollectorInv, NEW e \in Exporters, Receive(e)
    PROVE  CollectorInv'
<1>1. PICK sets \in BoundedSeq(SetsOf(e), MaxSets) : work' = [exporter |-> e, sets |-> sets]
    BY DEF Receive
<1>2. UNCHANGED <<templates, used>> /\ fate' = NoFate /\ stopped' = FALSE
    BY DEF Receive, vars, CollectorInv
<1>3. sets \in Seq(Payload(used[e])) /\ Len(sets) <= MaxSets
    <2>1. PICK n \in 0..MaxSets : sets \in [1..n -> SetsOf(e)]
        BY <1>1 DEF BoundedSeq, SeqOf
    <2>2. n \in Nat /\ n <= MaxSets
        BY CollectorAssumption DEF CollectorAssumption
    <2>3. sets \in [1..n -> Payload(used[e])]
        BY <2>1, SentIsPayload
    <2>4. sets \in Seq(Payload(used[e]))
        BY <2>2, <2>3, SeqDef
    <2>5. Len(sets) = n
        BY <2>2, <2>3, <2>4, LenProperties
    <2>. QED  BY <2>2, <2>4, <2>5
<1>4. FiledByExporter'
    BY <1>2 DEF CollectorInv, FiledByExporter, Scope
<1>5. DecodedAsExported' /\ KnownDataIsDecoded' /\ fate'.result = "none"
    BY <1>2 DEF NoFate, DecodedAsExported, KnownDataIsDecoded
<1>6. work'.exporter = e /\ work'.sets = sets
    BY <1>1
<1>. QED  BY <1>2, <1>3, <1>4, <1>5, <1>6 DEF CollectorInv

LEMMA FailToReceiveInv ==
    ASSUME CollectorInv, FailToReceive
    PROVE  CollectorInv'
<1>1. /\ UNCHANGED <<templates, used, work>> /\ fate' = NoFate
      /\ stopped' = TRUE /\ Waiting'
    BY DEF FailToReceive, vars, Waiting
<1>2. FiledByExporter'
    BY <1>1 DEF CollectorInv, FiledByExporter, Scope
<1>3. DecodedAsExported' /\ KnownDataIsDecoded' /\ fate'.result = "none"
    BY <1>1 DEF NoFate, DecodedAsExported, KnownDataIsDecoded
<1>. QED  BY <1>1, <1>2, <1>3 DEF CollectorInv

\* The steps that leave the store and the definitions alone and decode nothing.
LEMMA SkipInv ==
    ASSUME CollectorInv, FinishTemplates \/ FinishData \/ AbandonDatagram
    PROVE  CollectorInv'
<1>1. /\ UNCHANGED <<templates, used>> /\ fate' = NoFate /\ ~Waiting
      /\ stopped' = FALSE
      /\ NextSetIs(Tail(work.sets)) \/ NextSetIs(<<>>)
    BY DEF FinishTemplates, FinishData, Decoding, AbandonDatagram, vars, CollectorInv
<1>2. /\ work'.exporter = work.exporter
      /\ work'.sets \in Seq(Payload(used'[work'.exporter]))
      /\ Len(work'.sets) <= MaxSets
    <2>1. CASE NextSetIs(Tail(work.sets))
        BY <1>1, <2>1, SetsInHand, NextSetKeeps
    <2>2. CASE NextSetIs(<<>>)
        BY <1>1, <2>2, SetsInHand, NextSetKeeps
    <2>. QED  BY <1>1, <2>1, <2>2
<1>3. FiledByExporter'
    BY <1>1 DEF CollectorInv, FiledByExporter, Scope
<1>4. DecodedAsExported' /\ KnownDataIsDecoded' /\ fate'.result = "none"
    BY <1>1 DEF NoFate, DecodedAsExported, KnownDataIsDecoded
<1>. QED  BY <1>1, <1>2, <1>3, <1>4 DEF CollectorInv

\* A record in hand that is not damaged is one of its sender's definitions.
LEMMA RecordInHand ==
    ASSUME CollectorInv, ~Waiting, Current.kind \in {"Template", "OptionsTemplate"}, NextIsGood
    PROVE  /\ work.exporter \in Exporters
           /\ Head(Current.records) \in used[work.exporter]
           /\ Head(Current.records) \in Template
           /\ RestOfSet \in Payload(used[work.exporter])
<1>. DEFINE D == used[work.exporter]
<1>1. work.exporter \in Exporters /\ D \subseteq Template
    BY DEF CollectorInv
<1>2. Current \in Payload(D)
    BY SetsInHand
<1>. HIDE DEF D
<1>3. Current.records \in Seq(D \cup {Bad}) /\ Current.records # <<>>
    BY <1>2, InHand DEF NextIsGood
<1>4. Head(Current.records) \in D \cup {Bad} /\ Tail(Current.records) \in Seq(D \cup {Bad})
    BY <1>3, HeadTailProperties
<1>5. RestOfSet \in Payload(D)
    BY <1>2, <1>4, LeftOver DEF RestOfSet
<1>6. Head(Current.records) \in D
    BY <1>4 DEF NextIsGood
<1>. QED  BY <1>1, <1>5, <1>6 DEF D

\* A template is filed in the scope of its sender, which no one else shares.
LEMMA HandleTemplateInv ==
    ASSUME IndInv, CollectorInv, HandleTemplate
    PROVE  CollectorInv'
<1>. DEFINE e == work.exporter
            record == Head(Current.records)
<1>1. /\ ~Waiting /\ Current.kind \in {"Template", "OptionsTemplate"} /\ NextIsGood
      /\ Insert(Scope(e)[1], Scope(e)[2], record)
      /\ NextSetIs(<<RestOfSet>> \o Tail(work.sets))
      /\ fate' = NoFate /\ used' = used /\ stopped' = FALSE
    BY DEF HandleTemplate, InsertObserved, CollectorInv
<1>2. e \in Exporters /\ record \in used[e] /\ record \in Template
    BY <1>1, RecordInHand
<1>3. /\ work'.exporter = work.exporter
      /\ work'.sets \in Seq(Payload(used'[work'.exporter]))
      /\ Len(work'.sets) <= MaxSets
    <2>1. RestOfSet \in Payload(used[work.exporter])
        BY <1>1, RecordInHand
    <2>. DEFINE sets == <<RestOfSet>> \o Tail(work.sets)
    <2>2. sets \in Seq(Payload(used[work.exporter])) /\ Len(sets) <= Len(work.sets)
        BY <1>1, <2>1, SetsInHand
    <2>3. NextSetIs(sets)
        BY <1>1
    <2>. HIDE DEF sets
    <2>. QED  BY <1>1, <2>2, <2>3, NextSetKeeps
<1>4. FiledByExporter'
    <2>1. /\ Scope(e)[1] = Address[e] /\ Scope(e)[2] = Domain[e]
          /\ Address[e] \in Sessions /\ Domain[e] \in Odids
        BY <1>2, CollectorAssumption DEF CollectorAssumption, Scope
    <2>. SUFFICES ASSUME NEW key \in DOMAIN templates', NEW x \in Exporters,
                         <<key[1], key[2]>> = Scope(x)
                  PROVE  templates'[key] \in used[x]
        BY <1>1 DEF FiledByExporter, Scope
    <2>. HIDE DEF e, record
    <2>2. \/ key \in DOMAIN templates /\ templates'[key] = templates[key]
          \/ key = <<Address[e], Domain[e], record.id>> /\ templates'[key] = record
        BY <1>1, <1>2, <2>1, InsertFiles
    <2>3. CASE key \in DOMAIN templates /\ templates'[key] = templates[key]
        BY <2>3 DEF CollectorInv, FiledByExporter
    <2>4. CASE key = <<Address[e], Domain[e], record.id>> /\ templates'[key] = record
        <3>1. <<Address[x], Domain[x]>> = <<Address[e], Domain[e]>>
            BY <2>4 DEF Scope
        <3>2. x = e
            BY <1>2, <3>1, ApartAssumption DEF ApartAssumption
        <3>. QED  BY <1>2, <2>4, <3>2
    <2>. QED  BY <2>2, <2>3, <2>4
<1>5. DecodedAsExported' /\ KnownDataIsDecoded' /\ fate'.result = "none"
    BY <1>1 DEF NoFate, DecodedAsExported, KnownDataIsDecoded
<1>. QED  BY <1>1, <1>3, <1>4, <1>5 DEF CollectorInv

\* What a data set finds in its sender's scope is its sender's; where it finds
\* nothing, the capacity rule says why.
LEMMA LookUpTemplateInv ==
    ASSUME IndInv, RetentionInv, CollectorInv, LookUpTemplate
    PROVE  CollectorInv'
<1>. DEFINE e == work.exporter
            sent == Current.definition
            key == KeyIn(Scope(e), sent.id)
<1>1. /\ ~Waiting /\ Current.kind = "Data"
      /\ UNCHANGED <<templates, announced, rivals, used>> /\ stopped' = FALSE
    BY DEF LookUpTemplate, Get, historyVars, CollectorInv
<1>2. IF key \in DOMAIN templates
      THEN fate' = Decoded(key, sent, templates[key]) /\ work' = work
      ELSE fate' = Unknown(key) /\ NextSetIs(Tail(work.sets))
    BY DEF LookUpTemplate
<1>3. e \in Exporters /\ sent \in used[e] /\ sent \in Template
    <2>1. Current \in Payload(used[e])
        BY <1>1, SetsInHand
    <2>2. e \in Exporters /\ used[e] \subseteq Template
        BY DEF CollectorInv
    <2>. QED  BY <1>1, <2>1, <2>2, InHand
<1>4. /\ work'.exporter = work.exporter
      /\ work'.sets \in Seq(Payload(used'[work'.exporter]))
      /\ Len(work'.sets) <= MaxSets
    <2>1. CASE work' = work
        BY <1>1, <2>1 DEF CollectorInv
    <2>2. CASE NextSetIs(Tail(work.sets))
        BY <1>1, <2>2, SetsInHand, NextSetKeeps
    <2>. QED  BY <1>2, <2>1, <2>2
<1>5. key \in Keys /\ key[3] = sent.id /\ <<key[1], key[2]>> = Scope(e)
    <2>1. sent.id \in TemplateIds
        BY <1>3 DEF Template
    <2>. QED  BY <1>3, <2>1, ScopeKey DEF KeyIn, Scope
<1>6. FiledByExporter'
    BY <1>1 DEF CollectorInv, FiledByExporter, Scope
<1>. HIDE DEF e, key
<1>7. /\ fate'.result \in {"none", "decoded", "unknown"}
      /\ fate'.result = "decoded" =>
             /\ key \in DOMAIN templates /\ work' = work
             /\ fate'.sent = sent /\ fate'.under = templates[key]
      /\ fate'.result = "unknown" => fate'.key = key /\ key \notin DOMAIN templates
    BY <1>2 DEF Decoded, Unknown
<1>8. fate'.result = "decoded" => Decoding' /\ (Current.definition = fate.sent)'
    BY <1>1, <1>7 DEF Decoding, Waiting, Current
<1>. HIDE DEF sent
<1>9. DecodedAsExported'
    <2>. SUFFICES ASSUME fate'.result = "decoded"
                  PROVE  /\ fate'.under \in used[e]
                         /\ fate'.under.id = fate'.sent.id
                         /\ (\A other \in used[e] :
                                 other.id = fate'.sent.id => other = fate'.sent)
                            => fate'.under = fate'.sent
        BY <1>1, <1>4 DEF DecodedAsExported, NotRedefined, e
    <2>1. key \in DOMAIN templates /\ fate'.sent = sent /\ fate'.under = templates[key]
        BY <1>7
    <2>2. templates[key] \in used[e]
        BY <1>3, <1>5, <2>1 DEF CollectorInv, FiledByExporter
    <2>3. templates[key].id = sent.id
        BY <1>5, <2>1 DEF IndInv, EntriesKeepTheirId
    <2>. QED  BY <2>1, <2>2, <2>3
<1>10. KnownDataIsDecoded'
    <2>. SUFFICES ASSUME fate'.result = "unknown", key \in announced
                  PROVE  Cardinality(rivals[key]) >= Capacity
        BY <1>1, <1>7 DEF KnownDataIsDecoded
    <2>1. ~(Cardinality(rivals[key]) < Capacity)
        BY <1>7 DEF RetentionInv, ActiveTemplatesSurvive
    <2>2. Cardinality(rivals[key]) \in Nat
        BY <1>5, FS_CardinalityType DEF RetentionInv
    <2>. QED  BY <2>1, <2>2, CapacityAssumption
<1>11. used' \in [Exporters -> SUBSET Template] /\ work'.exporter \in Exporters
    BY <1>1, <1>4 DEF CollectorInv
<1>. QED  BY <1>1, <1>4, <1>6, <1>7, <1>8, <1>9, <1>10, <1>11 DEF CollectorInv

\* A record is taken off the set in hand, which stays the one looked up for.
LEMMA ReadRecordInv ==
    ASSUME CollectorInv, ReadRecord
    PROVE  CollectorInv'
<1>. DEFINE e == work.exporter
            sent == Current.definition
<1>1. /\ ~Waiting /\ Current.kind = "Data" /\ fate.result = "decoded"
      /\ UNCHANGED <<templates, used, fate>> /\ stopped' = FALSE
    BY DEF ReadRecord, Decoding, vars, CollectorInv
<1>2. PICK size \in RecordSizes(fate.under.fields, Current.bytes) :
          NextSetIs(<<DataSet(sent, Current.bytes - size)>> \o Tail(work.sets))
    BY DEF ReadRecord
<1>. DEFINE left == DataSet(sent, Current.bytes - size)
<1>3. /\ e \in Exporters /\ used[e] \subseteq Template
      /\ sent \in used[e] /\ Current.bytes \in Nat
    <2>1. Current \in Payload(used[e])
        BY <1>1, SetsInHand
    <2>. QED  BY <1>1, <2>1, InHand DEF CollectorInv
<1>4. size \in Nat /\ size <= Current.bytes
    <2>1. fate.under \in Template
        BY <1>1, <1>3 DEF CollectorInv, DecodedAsExported
    <2>2. MinSize[fate.under.fields] \in Nat
        BY <2>1, CollectorAssumption DEF CollectorAssumption, Template
    <2>. QED  BY <1>2, <1>3, <2>2 DEF RecordSizes
<1>5. left \in Payload(used[e])
    BY <1>3, <1>4 DEF Payload
<1>6. /\ work'.exporter = work.exporter
      /\ work'.sets \in Seq(Payload(used'[work'.exporter]))
      /\ Len(work'.sets) <= MaxSets
    <2>. DEFINE sets == <<left>> \o Tail(work.sets)
    <2>1. sets \in Seq(Payload(used[work.exporter])) /\ Len(sets) <= Len(work.sets)
        BY <1>1, <1>5, SetsInHand
    <2>2. NextSetIs(sets)
        BY <1>2
    <2>. HIDE DEF sets
    <2>. QED  BY <1>1, <2>1, <2>2, NextSetKeeps
<1>7. Decoding' /\ Current' = left
    <2>1. work'.sets = <<left>> \o Tail(work.sets)
        BY <1>2 DEF NextSetIs
    <2>2. Tail(work.sets) \in Seq(Payload(used[e]))
        BY <1>1, SetsInHand
    <2>. HIDE DEF left
    <2>3. /\ <<left>> \o Tail(work.sets) # <<>>
          /\ Head(<<left>> \o Tail(work.sets)) = left
        BY <1>5, <2>2
    <2>4. left.kind = "Data"
        BY DEF left, DataSet
    <2>. QED  BY <1>1, <2>1, <2>3, <2>4 DEF Decoding, Waiting, Current
<1>8. Current'.definition = fate'.sent
    <2>1. sent = fate.sent /\ left.definition = sent
        BY <1>1 DEF CollectorInv, DataSet
    <2>. QED  BY <1>1, <1>7, <2>1
<1>. HIDE DEF left, sent, e
<1>9. FiledByExporter'
    BY <1>1 DEF CollectorInv, FiledByExporter, Scope
<1>10. DecodedAsExported' /\ KnownDataIsDecoded'
    BY <1>1, <1>6 DEF CollectorInv, DecodedAsExported, NotRedefined, KnownDataIsDecoded
<1>. QED  BY <1>1, <1>3, <1>6, <1>7, <1>8, <1>9, <1>10 DEF CollectorInv

\* The collector uses the store as its history expects.
LEMMA CollectorUsesStore ==
    ASSUME CollectorInv, [CollectorNext]_allVars
    PROVE  [RetentionNext]_<<vars, historyVars>>
<1>1. CASE HandleTemplate
    <2>. DEFINE e == work.exporter
                record == Head(Current.records)
    <2>1. InsertObserved(Scope(e)[1], Scope(e)[2], record)
        BY <1>1 DEF HandleTemplate
    <2>2. e \in Exporters /\ record \in Template
        BY <1>1, RecordInHand DEF HandleTemplate
    <2>3. Scope(e)[1] \in Sessions /\ Scope(e)[2] \in Odids
        BY <2>2, CollectorAssumption DEF CollectorAssumption, Scope
    <2>. HIDE DEF e, record
    <2>. QED  BY <2>1, <2>2, <2>3 DEF RetentionNext
<1>2. CASE LookUpTemplate
    <2>. DEFINE e == work.exporter
                sent == Current.definition
    <2>1. /\ Get(Scope(e)[1], Scope(e)[2], sent.id)
          /\ UNCHANGED historyVars
        BY <1>2 DEF LookUpTemplate, KeyIn
    <2>2. e \in Exporters /\ sent \in Template
        <3>1. Current \in Payload(used[e]) /\ Current.kind = "Data"
            BY <1>2, SetsInHand DEF LookUpTemplate
        <3>. QED  BY <3>1, InHand DEF CollectorInv
    <2>3. Scope(e)[1] \in Sessions /\ Scope(e)[2] \in Odids /\ sent.id \in TemplateIds
        BY <2>2, CollectorAssumption DEF CollectorAssumption, Scope, Template
    <2>. HIDE DEF e, sent
    <2>. QED  BY <2>1, <2>2, <2>3 DEF RetentionNext
<1>3. CASE FinishTemplates \/ ReadRecord \/ FinishData \/ AbandonDatagram \/ FailToReceive
    BY <1>3 DEF FinishTemplates, ReadRecord, FinishData, AbandonDatagram, FailToReceive
<1>4. CASE \E exporter \in Exporters : Receive(exporter) \/ Redefine(exporter)
    BY <1>4 DEF Receive, Redefine
<1>5. CASE UNCHANGED allVars
    BY <1>5 DEF allVars
<1>. QED  BY <1>1, <1>2, <1>3, <1>4, <1>5 DEF CollectorNext, Handle

LEMMA CollectorByNext ==
    ASSUME IndInv, RetentionInv, CollectorInv, [CollectorNext]_allVars
    PROVE  CollectorInv'
<1>1. CASE UNCHANGED allVars
    <2>1. UNCHANGED <<templates, announced, rivals, used, work, fate, stopped>>
        BY <1>1 DEF allVars, vars, historyVars
    <2>. QED  BY <2>1 DEF CollectorInv, FiledByExporter, Scope, DecodedAsExported,
                          NotRedefined, KnownDataIsDecoded, Decoding, Current, Waiting
<1>2. CASE CollectorNext
    BY <1>2, HandleTemplateInv, LookUpTemplateInv, ReadRecordInv, SkipInv, ReceiveInv,
       FailToReceiveInv, RedefineInv
       DEF CollectorNext, Handle
<1>. QED  BY <1>1, <1>2

LEMMA CollectorInvariance == CollectorSpec => [](IndInv /\ RetentionInv /\ CollectorInv)
<1>1. CollectorInit => IndInv /\ RetentionInv /\ CollectorInv
    BY InitInv, RetentionAtInit, CollectorAtInit DEF CollectorInit, RetentionInit
<1>2. IndInv /\ RetentionInv /\ CollectorInv /\ [CollectorNext]_allVars
          => (IndInv /\ RetentionInv /\ CollectorInv)'
    <2>. SUFFICES ASSUME IndInv, RetentionInv, CollectorInv, [CollectorNext]_allVars
                  PROVE  IndInv' /\ RetentionInv' /\ CollectorInv'
        OBVIOUS
    <2>1. [RetentionNext]_<<vars, historyVars>>
        BY CollectorUsesStore
    <2>2. [Next]_vars
        BY <2>1, WatchedStep
    <2>. QED  BY <2>1, <2>2, NextInv, RetentionByNext, CollectorByNext
<1>. QED  BY <1>1, <1>2, PTL DEF CollectorSpec

-----------------------------------------------------------------------------
\* The datagram in hand, the definitions and the result have their types.
THEOREM CollectorTypeCorrect == CollectorSpec => []CollectorTypeOK
<1>1. CollectorInv => CollectorTypeOK
    <2>. SUFFICES ASSUME CollectorInv  PROVE CollectorTypeOK
        OBVIOUS
    <2>1. ASSUME NEW i \in 1..Len(work.sets)
          PROVE  work.sets[i].kind \in {"Template", "OptionsTemplate", "Data", "Malformed"}
        <3>1. work.sets[i] \in Payload(used[work.exporter])
            BY ElementOfSeq DEF CollectorInv
        <3>. QED  BY <3>1 DEF Payload, TemplateSet, OptionsTemplateSet, DataSet, MalformedSet
    <2>. QED  BY <2>1 DEF CollectorInv, CollectorTypeOK
<1>. QED  BY <1>1, CollectorInvariance, PTL

\* Whatever is lost, repeated or reordered, whoever else uses a template id and
\* whatever has been evicted: data is decoded under a definition its own
\* exporter has given the id.
THEOREM DecodedRightly == CollectorSpec => []DecodedAsExported
<1>1. CollectorInv => DecodedAsExported
    BY DEF CollectorInv
<1>. QED  BY <1>1, CollectorInvariance, PTL

\* A data set is passed over only if its template was never accepted, or if
\* Capacity others have been refreshed since.
THEOREM KnownDecoded == CollectorSpec => []KnownDataIsDecoded
<1>1. CollectorInv => KnownDataIsDecoded
    BY DEF CollectorInv
<1>. QED  BY <1>1, CollectorInvariance, PTL

\* Under the collector's own calls, too, templates that are refreshed stay and
\* the store's table and list agree: the collector's steps are the store's.
THEOREM CollectorRetains == CollectorSpec => [](ActiveTemplatesSurvive /\ ListMatchesTable)
<1>1. RetentionInv /\ IndInv => ActiveTemplatesSurvive /\ ListMatchesTable
    BY DEF RetentionInv, IndInv
<1>. QED  BY <1>1, CollectorInvariance, PTL
=============================================================================
