-------------------------- MODULE MatchmakerProofs --------------------------
(***************************************************************************)
(* Theorems about the matchmaker, for any set of clients, lobby size,      *)
(* array length, cooldown and port range.                                  *)
(***************************************************************************)
EXTENDS Matchmaker, SequenceTheorems, FiniteSetTheorems, TLAPS

(* Lemmas on the queue.                                                    *)

\* Cutting a queue without duplicates in two leaves two without, with no common member.
LEMMA CutDistinct ==
    ASSUME NEW S, NEW s \in Seq(S), NEW k \in 0 .. Len(s), Distinct(s)
    PROVE  /\ Distinct(SubSeq(s, 1, k))
           /\ Distinct(SubSeq(s, k + 1, Len(s)))
           /\ Members(SubSeq(s, 1, k)) \intersect Members(SubSeq(s, k + 1, Len(s))) = {}
           /\ Members(SubSeq(s, 1, k)) \subseteq Members(s)
           /\ Members(SubSeq(s, k + 1, Len(s))) \subseteq Members(s)
<1> DEFINE a == SubSeq(s, 1, k)
           b == SubSeq(s, k + 1, Len(s))
<1>1. /\ a \in Seq(S) /\ Len(a) = k /\ DOMAIN a = 1 .. k
      /\ \A i \in 1 .. k : a[i] = s[i]
  OBVIOUS
<1>2. /\ b \in Seq(S) /\ Len(b) = Len(s) - k /\ DOMAIN b = 1 .. Len(s) - k
      /\ \A i \in 1 .. Len(s) - k : b[i] = s[k + i]
  OBVIOUS
<1>3. /\ \A i, j \in 1 .. Len(s) : s[i] = s[j] => i = j
      /\ Len(s) \in Nat /\ k \in Nat /\ k <= Len(s) /\ DOMAIN s = 1 .. Len(s)
  BY DEF Distinct
<1> HIDE DEF a, b
<1>4. Distinct(a) /\ Distinct(b)
  <2>1. ASSUME NEW i \in 1 .. k, NEW j \in 1 .. k, a[i] = a[j]
        PROVE  i = j
    BY <2>1, <1>1, <1>3
  <2>2. ASSUME NEW i \in 1 .. Len(s) - k, NEW j \in 1 .. Len(s) - k, b[i] = b[j]
        PROVE  i = j
    <3>1. k + i \in 1 .. Len(s) /\ k + j \in 1 .. Len(s) /\ s[k + i] = s[k + j]
      BY <2>2, <1>2, <1>3
    <3> QED
      BY <3>1, <1>3
  <2> QED
    BY <2>1, <2>2, <1>1, <1>2 DEF Distinct
<1>5. Members(a) \intersect Members(b) = {}
  <2> SUFFICES ASSUME NEW i \in 1 .. k, NEW j \in 1 .. Len(s) - k, a[i] = b[j]
               PROVE  FALSE
    BY <1>1, <1>2 DEF Members
  <2>1. i \in 1 .. Len(s) /\ k + j \in 1 .. Len(s) /\ i # k + j /\ s[i] = s[k + j]
    BY <1>1, <1>2, <1>3
  <2> QED
    BY <2>1, <1>3
<1>6. Members(a) \subseteq Members(s) /\ Members(b) \subseteq Members(s)
  <2>1. ASSUME NEW i \in 1 .. k PROVE a[i] \in Members(s)
    BY <1>1, <1>3 DEF Members
  <2>2. ASSUME NEW j \in 1 .. Len(s) - k PROVE b[j] \in Members(s)
    <3>1. k + j \in 1 .. Len(s) /\ b[j] = s[k + j]
      BY <1>2, <1>3
    <3> QED
      BY <3>1, <1>3 DEF Members
  <2>3. \A x \in Members(a) : x \in Members(s)
    BY <2>1, <1>1 DEF Members
  <2>4. \A x \in Members(b) : x \in Members(s)
    BY <2>2, <1>2 DEF Members
  <2> QED
    BY <2>3, <2>4
<1> QED
  BY <1>4, <1>5, <1>6 DEF a, b

\* Appending a newcomer keeps the queue free of duplicates.
LEMMA AppendDistinct ==
    ASSUME NEW S, NEW s \in Seq(S), NEW x \in S, Distinct(s), x \notin Members(s)
    PROVE  Distinct(Append(s, x)) /\ Members(Append(s, x)) = Members(s) \union {x}
<1>1. \A i \in 1 .. Len(s) : s[i] # x
  BY DEF Members
<1>2. /\ DOMAIN Append(s, x) = 1 .. Len(s) + 1
      /\ \A i \in 1 .. Len(s) : Append(s, x)[i] = s[i]
      /\ Append(s, x)[Len(s) + 1] = x
  OBVIOUS
<1>3. \A i, j \in 1 .. Len(s) : s[i] = s[j] => i = j
  BY DEF Distinct
<1>4. DOMAIN s = 1 .. Len(s) /\ Len(s) \in Nat
  OBVIOUS
<1>5. Distinct(Append(s, x))
  BY <1>1, <1>2, <1>3, <1>4 DEF Distinct
<1>6. Members(Append(s, x)) = Members(s) \union {x}
  BY <1>2, <1>4 DEF Members
<1> QED
  BY <1>5, <1>6

\* Taking the head of a group without duplicates.
LEMMA TailDistinct ==
    ASSUME NEW S, NEW s \in Seq(S), s # <<>>, Distinct(s)
    PROVE  /\ Distinct(Tail(s)) /\ Tail(s) \in Seq(S)
           /\ Head(s) \in Members(s) /\ Head(s) \in S
           /\ Members(Tail(s)) = Members(s) \ {Head(s)}
           /\ Len(Tail(s)) = Len(s) - 1
<1>1. /\ Len(s) \in Nat /\ Len(s) >= 1 /\ DOMAIN s = 1 .. Len(s) /\ Head(s) = s[1]
      /\ Tail(s) \in Seq(S) /\ Len(Tail(s)) = Len(s) - 1
      /\ DOMAIN Tail(s) = 1 .. Len(s) - 1
      /\ \A i \in 1 .. Len(s) - 1 : Tail(s)[i] = s[i + 1]
  OBVIOUS
<1>2. \A i, j \in 1 .. Len(s) : s[i] = s[j] => i = j
  BY DEF Distinct
<1>3. Distinct(Tail(s))
  BY <1>1, <1>2 DEF Distinct
<1>4. Head(s) \in Members(s) /\ Head(s) \in S
  BY <1>1 DEF Members
<1>5. Members(Tail(s)) \subseteq Members(s) \ {Head(s)}
  BY <1>1, <1>2 DEF Members
<1>6. ASSUME NEW x \in Members(s), x # Head(s) PROVE x \in Members(Tail(s))
  <2>1. PICK i \in 1 .. Len(s) : x = s[i]
    BY <1>1 DEF Members
  <2>2. i - 1 \in DOMAIN Tail(s) /\ Tail(s)[i - 1] = x
    BY <2>1, <1>1, <1>6
  <2> QED
    BY <2>2 DEF Members
<1> QED
  BY <1>1, <1>3, <1>4, <1>5, <1>6

-----------------------------------------------------------------------------
(* Type correctness.                                                       *)

LEMMA NextPortType ==
    ASSUME NEW p \in Port PROVE NextPort(p) \in Port
BY PortAssumption DEF NextPort, Port

\* Every state of the matchmaker has the declared types.
THEOREM TypeCorrect == Spec => []TypeOK
<1>1. Init => TypeOK
  BY LobbyAssumption, ClockAssumption, PortAssumption
  DEF Init, TypeOK, Port, Stage, Recent
<1>2. TypeOK /\ [Next]_vars => TypeOK'
  <2> SUFFICES ASSUME TypeOK, [Next]_vars PROVE TypeOK'
    OBVIOUS
  <2> USE DEF TypeOK
  <2>1. Pruned \subseteq Recent
    BY DEF Pruned
  <2>2. ASSUME NEW c \in Client, FindMatch(c) PROVE TypeOK'
    <3>1. CASE AlreadyQueued(c) BY <3>1 DEF AlreadyQueued, vars
    <3>2. CASE IgnoreStaleRetry(c) BY <3>2, <2>1 DEF IgnoreStaleRetry
    <3>3. CASE DropWhenFull(c) BY <3>3, <2>1 DEF DropWhenFull
    <3>4. CASE Enqueue(c) BY <3>4, <2>1 DEF Enqueue
    <3> QED BY <2>2, <3>1, <3>2, <3>3, <3>4 DEF FindMatch
  <2>3. CASE EndDrain BY <2>3 DEF EndDrain, Stage
  <2>4. ASSUME TakeGroup
        PROVE  /\ wait_queue' \in Seq(Client) /\ port' \in Port
               /\ next_game_port' \in Port /\ Taken \in Seq(Client)
               /\ spawns_since' \in [Port -> 0 .. PortRange]
    <3>1. LobbySize \in 0 .. Len(wait_queue)
      BY <2>4, LobbyAssumption DEF TakeGroup
    <3>2. wait_queue' \in Seq(Client) /\ Taken \in Seq(Client)
      <4>1. wait_queue \in Seq(Client) /\ LobbySize \in Nat /\ LobbySize <= Len(wait_queue)
        BY <3>1, LobbyAssumption DEF TypeOK
      <4>2. SubSeq(wait_queue, 1, LobbySize) \in Seq(Client)
        BY ONLY <4>1
      <4>3. SubSeq(wait_queue, LobbySize + 1, Len(wait_queue)) \in Seq(Client)
        BY ONLY <4>1
      <4> QED BY <2>4, <4>2, <4>3 DEF TakeGroup, Taken
    <3>3. spawns_since' \in [Port -> 0 .. PortRange]
      BY <2>4, PortAssumption DEF TakeGroup
    <3> QED BY <2>4, <3>2, <3>3, NextPortType DEF TakeGroup
  <2>5. CASE SpawnServer
    <3>1. TakeGroup BY <2>5 DEF SpawnServer
    <3> QED BY <3>1, <2>4, <2>5 DEF SpawnServer, Stage
  <2>6. CASE SpawnFails
    <3>1. TakeGroup BY <2>6 DEF SpawnFails
    <3> QED BY <3>1, <2>4, <2>6 DEF SpawnFails
  <2>7. CASE Announce
    <3>1. Head(group) \in Client /\ Tail(group) \in Seq(Client)
      BY <2>7 DEF Announce
    <3>2. recently_matched' \in SUBSET Recent
      BY <2>7, <3>1, <2>1 DEF Announce, MarkRecentlyMatched, Recent
    <3>3. age' \in [Client -> 0 .. Cooldown] /\ outcome' \in [Client -> {"none", "told", "dropped"}]
      BY <2>7, <3>1, ClockAssumption DEF Announce
    <3>4. roster' \in [Port -> SUBSET Client]
      BY <2>7, <3>1 DEF Announce
    <3> QED BY <2>7, <3>1, <3>2, <3>3, <3>4 DEF Announce
  <2>8. CASE EndAnnounce BY <2>8 DEF EndAnnounce, Stage
  <2>9. CASE Sleep
    <3>1. (now + 1) % ClockWrap \in 0 .. ClockWrap - 1
      BY ClockAssumption
    <3>2. age' \in [Client -> 0 .. Cooldown]
      BY <2>9, ClockAssumption DEF Sleep
    <3> QED BY <2>9, <3>1, <3>2 DEF Sleep, Stage
  <2>10. CASE UNCHANGED vars BY <2>10 DEF vars
  <2> QED
    BY <2>2, <2>3, <2>5, <2>6, <2>7, <2>8, <2>9, <2>10 DEF Next
<1> QED
  BY <1>1, <1>2, PTL DEF Spec

-----------------------------------------------------------------------------
(* Who is where.                                                           *)

\* Outside the announcement nobody is half-way between queue and cooldown list.
GroupOnlyAnnounced == stage # "announce" => group = <<>>

\* The cooldown list after an announcement holds at most the old entries and one new one.
LEMMA MarkAdds ==
    ASSUME NEW c \in Client, MarkRecentlyMatched(c)
    PROVE  /\ recently_matched' \subseteq recently_matched
                                          \union {[addr |-> c, matched_at_ms |-> now]}
           /\ [addr |-> c, matched_at_ms |-> now] \in recently_matched'
BY DEF MarkRecentlyMatched, Pruned

\* A client is in one place, and nobody is half-way from the queue to the cooldown list
\* unless a group is being told.
LEMMA Placed == Spec => [](OnePlace /\ GroupOnlyAnnounced)
<1> DEFINE Inv == OnePlace /\ GroupOnlyAnnounced
<1>1. Init => Inv
  BY DEF Init, OnePlace, GroupOnlyAnnounced, Distinct, Members, Remembered
<1>2. TypeOK /\ Inv /\ [Next]_vars => Inv'
  <2> SUFFICES ASSUME TypeOK, OnePlace, GroupOnlyAnnounced, [Next]_vars
               PROVE  OnePlace' /\ GroupOnlyAnnounced'
    OBVIOUS
  <2>0. /\ wait_queue \in Seq(Client) /\ group \in Seq(Client)
        /\ Distinct(wait_queue) /\ Distinct(group)
        /\ Members(wait_queue) \intersect Members(group) = {}
        /\ Remembered \intersect Members(wait_queue) = {}
        /\ Remembered \intersect Members(group) = {}
        /\ \A e, f \in recently_matched : e.addr = f.addr => e = f
    BY DEF OnePlace, TypeOK
  <2>p. ASSUME recently_matched' \subseteq recently_matched
        PROVE  /\ Remembered' \subseteq Remembered
               /\ \A e, f \in recently_matched' : e.addr = f.addr => e = f
    BY <2>p, <2>0 DEF Remembered
  <2>1. ASSUME NEW c \in Client, FindMatch(c)
        PROVE  OnePlace' /\ GroupOnlyAnnounced'
    <3>1. CASE AlreadyQueued(c)
      BY <3>1 DEF AlreadyQueued, vars, OnePlace, GroupOnlyAnnounced, Remembered
    <3>2. CASE IgnoreStaleRetry(c) \/ DropWhenFull(c)
      <4>1. recently_matched' \subseteq recently_matched /\ UNCHANGED <<wait_queue, group, stage>>
        BY <3>2 DEF IgnoreStaleRetry, DropWhenFull, Pruned
      <4>2. Remembered' \subseteq Remembered
        BY <4>1, <2>p
      <4> QED
        BY <4>1, <4>2, <2>p, <2>0 DEF OnePlace, GroupOnlyAnnounced, Distinct, Members
    <3>3. CASE Enqueue(c)
      <4>1. /\ wait_queue' = Append(wait_queue, c) /\ c \notin Members(wait_queue)
            /\ recently_matched' = Pruned /\ stage = "drain"
            /\ UNCHANGED <<group, stage>>
        BY <3>3 DEF Enqueue
      <4>2. Distinct(wait_queue') /\ Members(wait_queue') = Members(wait_queue) \union {c}
        BY <4>1, <2>0, AppendDistinct
      <4>3. c \notin Remembered'
        BY <3>3 DEF Enqueue, CoolingDown, Remembered
      <4>4. group' = <<>> /\ Members(group') = {}
        BY <4>1 DEF GroupOnlyAnnounced, Members
      <4>5. recently_matched' \subseteq recently_matched
        BY <4>1 DEF Pruned
      <4> QED
        BY <4>1, <4>2, <4>3, <4>4, <4>5, <2>p, <2>0
        DEF OnePlace, GroupOnlyAnnounced, Distinct
    <3> QED BY <2>1, <3>1, <3>2, <3>3 DEF FindMatch
  <2>2. ASSUME TakeGroup
        PROVE  /\ Distinct(wait_queue') /\ Distinct(Taken)
               /\ Members(Taken) \intersect Members(wait_queue') = {}
               /\ Members(Taken) \subseteq Members(wait_queue)
               /\ Members(wait_queue') \subseteq Members(wait_queue)
    <3>1. LobbySize \in 0 .. Len(wait_queue)
      BY <2>2, <2>0, LobbyAssumption DEF TakeGroup
    <3> QED BY <3>1, <2>0, <2>2, CutDistinct DEF TakeGroup, Taken
  <2>3. CASE SpawnServer
    <3>1. TakeGroup /\ group' = Taken /\ UNCHANGED recently_matched /\ stage' = "announce"
      BY <2>3 DEF SpawnServer
    <3>2. Remembered' = Remembered
      BY <3>1 DEF Remembered
    <3>3. Distinct(group') /\ Members(group') = Members(Taken)
      BY <3>1, <2>2
    <3>4. GroupOnlyAnnounced' /\ \A e, f \in recently_matched' : e.addr = f.addr => e = f
      BY <3>1, <2>0 DEF GroupOnlyAnnounced
    <3>5. Distinct(wait_queue') /\ Members(wait_queue') \intersect Members(group') = {}
      BY <3>1, <3>3, <2>2
    <3>6. Remembered' \intersect (Members(wait_queue') \union Members(group')) = {}
      <4>1. Members(wait_queue') \union Members(group') \subseteq Members(wait_queue)
        BY <3>1, <3>3, <2>2
      <4> QED BY <4>1, <3>2, <2>0
    <3> QED BY <3>3, <3>4, <3>5, <3>6 DEF OnePlace
  <2>4. CASE SpawnFails
    <3>1. TakeGroup /\ UNCHANGED <<recently_matched, group, stage>>
      BY <2>4 DEF SpawnFails
    <3>2. Remembered' = Remembered /\ Members(group') = Members(group)
      BY <3>1 DEF Remembered, Members
    <3> QED BY <3>1, <3>2, <2>2, <2>0 DEF OnePlace, GroupOnlyAnnounced, Distinct
  <2>5. CASE Announce
    <3> DEFINE c == Head(group)
    <3>1. /\ stage = "announce" /\ group # <<>> /\ group' = Tail(group)
          /\ MarkRecentlyMatched(c) /\ UNCHANGED <<wait_queue, stage>>
      BY <2>5 DEF Announce
    <3>2. /\ Distinct(Tail(group)) /\ c \in Members(group) /\ c \in Client
          /\ Members(Tail(group)) = Members(group) \ {c}
      BY <3>1, <2>0, TailDistinct
    <3>3. recently_matched' \subseteq recently_matched \union {[addr |-> c, matched_at_ms |-> now]}
      BY <3>1, <3>2, MarkAdds
    <3> HIDE DEF c
    <3>4. Remembered' \subseteq Remembered \union {c}
      BY <3>3 DEF Remembered
    <3>5. \A e \in recently_matched : e.addr # c
      BY <3>2, <2>0 DEF Remembered
    <3>6. \A e, f \in recently_matched' : e.addr = f.addr => e = f
      BY <3>3, <3>5, <2>0
    <3>7. Members(wait_queue') = Members(wait_queue) /\ Distinct(wait_queue')
      BY <3>1, <2>0 DEF Members, Distinct
    <3>8. GroupOnlyAnnounced'
      BY <3>1 DEF GroupOnlyAnnounced
    <3>9. Distinct(group') /\ Members(group') = Members(group) \ {c}
      BY <3>1, <3>2 DEF Distinct, Members
    <3>10. Remembered' \intersect (Members(wait_queue') \union Members(group')) = {}
      BY <3>4, <3>7, <3>9, <3>2, <2>0
    <3> QED
      BY <3>6, <3>7, <3>8, <3>9, <3>10, <2>0 DEF OnePlace
  <2>6. CASE EndDrain \/ EndAnnounce \/ Sleep \/ UNCHANGED vars
    <3>1. /\ UNCHANGED <<wait_queue, group, recently_matched>>
          /\ GroupOnlyAnnounced'
      BY <2>6 DEF EndDrain, EndAnnounce, Sleep, vars, GroupOnlyAnnounced
    <3>2. Remembered' = Remembered /\ Members(wait_queue') = Members(wait_queue)
          /\ Members(group') = Members(group)
      BY <3>1 DEF Remembered
    <3>3. Distinct(wait_queue') /\ Distinct(group')
      BY <3>1, <2>0
    <3>4. \A e, f \in recently_matched' : e.addr = f.addr => e = f
      BY <3>1, <2>0
    <3> QED BY <3>1, <3>2, <3>3, <3>4, <2>0 DEF OnePlace
  <2> QED
    BY <2>1, <2>3, <2>4, <2>5, <2>6 DEF Next
<1> QED
  BY <1>1, <1>2, TypeCorrect, PTL DEF Spec

\* A client waits once, is told once or is remembered once, and only one of the three.
THEOREM OnePlaceHolds == Spec => []OnePlace
BY Placed, PTL

\* Only clients that were told are kept out of the queue.
THEOREM CooldownOnlyWhenToldHolds == Spec => []CooldownOnlyWhenTold
<1>1. Init => CooldownOnlyWhenTold
  BY DEF Init, CooldownOnlyWhenTold, Remembered
<1>2. TypeOK /\ OnePlace /\ CooldownOnlyWhenTold /\ [Next]_vars => CooldownOnlyWhenTold'
  <2> SUFFICES ASSUME TypeOK, OnePlace, CooldownOnlyWhenTold, [Next]_vars
               PROVE  CooldownOnlyWhenTold'
    OBVIOUS
  <2>1. CASE recently_matched' \subseteq recently_matched /\ UNCHANGED outcome
    BY <2>1 DEF CooldownOnlyWhenTold, Remembered
  <2>2. ASSUME NEW c \in Client, FindMatch(c)
        PROVE  recently_matched' \subseteq recently_matched /\ UNCHANGED outcome
    BY <2>2 DEF FindMatch, AlreadyQueued, IgnoreStaleRetry, DropWhenFull, Enqueue, Pruned, vars
  <2>3. CASE SpawnFails
    <3>1. /\ UNCHANGED recently_matched /\ TakeGroup
          /\ outcome' = [d \in Client |-> IF d \in Members(Taken) THEN "dropped" ELSE outcome[d]]
      BY <2>3 DEF SpawnFails
    <3>2. Members(Taken) \subseteq Members(wait_queue)
      <4>1. LobbySize \in 0 .. Len(wait_queue) /\ wait_queue \in Seq(Client) /\ Distinct(wait_queue)
        BY <3>1, LobbyAssumption DEF TakeGroup, TypeOK, OnePlace
      <4> QED BY <4>1, CutDistinct DEF Taken
    <3>3. Remembered' = Remembered /\ Remembered \subseteq Client
      BY <3>1 DEF Remembered, TypeOK, Recent
    <3>4. Remembered \intersect Members(Taken) = {}
      BY <3>2 DEF OnePlace
    <3> QED BY <3>1, <3>3, <3>4 DEF CooldownOnlyWhenTold
  <2>4. CASE Announce
    <3> DEFINE c == Head(group)
    <3>1. c \in Client /\ MarkRecentlyMatched(c) /\ outcome' = [outcome EXCEPT ![c] = "told"]
      BY <2>4 DEF Announce, TypeOK
    <3>2. recently_matched' \subseteq recently_matched \union {[addr |-> c, matched_at_ms |-> now]}
      BY <3>1, MarkAdds
    <3> HIDE DEF c
    <3>3. Remembered' \subseteq Remembered \union {c} /\ Remembered \subseteq Client
      BY <3>2 DEF Remembered, TypeOK, Recent
    <3> QED BY <3>1, <3>3 DEF CooldownOnlyWhenTold, TypeOK
  <2>5. CASE EndDrain \/ SpawnServer \/ EndAnnounce \/ Sleep \/ UNCHANGED vars
    BY <2>5, <2>1 DEF EndDrain, SpawnServer, EndAnnounce, Sleep, vars
  <2> QED BY <2>1, <2>2, <2>3, <2>4, <2>5 DEF Next
<1> QED
  BY <1>1, <1>2, TypeCorrect, OnePlaceHolds, PTL DEF Spec

-----------------------------------------------------------------------------
(* What a spawned server is announced to.                                  *)

\* While a group is being told, those told and those left make up one lobby.
Announcing ==
    stage = "announce" =>
        /\ roster[port] \intersect Members(group) = {}
        /\ Cardinality(roster[port]) + Len(group) = LobbySize

\* Every spawned server is announced to exactly lobby_size different clients.
THEOREM FullLobbyHolds == Spec => []FullLobby
<1> DEFINE Inv == Announcing /\ FullLobby
<1>1. Init => Inv
  <2> SUFFICES ASSUME Init PROVE Inv
    OBVIOUS
  <2>1. \A p \in Port : Cardinality(roster[p]) = 0
    BY FS_EmptySet DEF Init
  <2> QED
    BY <2>1 DEF Init, Announcing, FullLobby
<1>2. TypeOK /\ OnePlace /\ Inv /\ [Next]_vars => Inv'
  <2> SUFFICES ASSUME TypeOK, OnePlace, Announcing, FullLobby, [Next]_vars
               PROVE  Announcing' /\ FullLobby'
    OBVIOUS
  <2>0. \A p \in Port : IsFiniteSet(roster[p]) /\ Cardinality(roster[p]) \in Nat
    BY ClientAssumption, FS_Subset, FS_CardinalityType DEF TypeOK
  <2>1. CASE stage # "announce" /\ stage' # "announce" /\ UNCHANGED roster
    BY <2>1 DEF Announcing, FullLobby
  <2>2. ASSUME NEW c \in Client, FindMatch(c)
        PROVE  stage # "announce" /\ stage' # "announce" /\ UNCHANGED roster
    BY <2>2 DEF FindMatch, AlreadyQueued, IgnoreStaleRetry, DropWhenFull, Enqueue, vars
  <2>3. CASE SpawnServer
    <3>1. /\ stage = "match" /\ stage' = "announce" /\ port' = next_game_port
          /\ roster' = [roster EXCEPT ![next_game_port] = {}] /\ group' = Taken
          /\ Len(wait_queue) >= LobbySize
      BY <2>3 DEF SpawnServer, TakeGroup
    <3>2. Len(Taken) = LobbySize
      BY <3>1, LobbyAssumption DEF Taken, TypeOK
    <3>3. roster'[port'] = {} /\ Cardinality({}) = 0
      BY <3>1, FS_EmptySet DEF TypeOK
    <3>4. \A p \in Port : p # port' => roster'[p] = roster[p]
      BY <3>1 DEF TypeOK
    <3>5. Announcing'
      <4>1. roster'[port'] \intersect Members(group') = {}
        BY <3>3
      <4>2. Cardinality(roster'[port']) = 0 /\ Len(group') = LobbySize
        BY <3>1, <3>2, <3>3
      <4>3. Cardinality(roster'[port']) + Len(group') = LobbySize
        BY <4>2, LobbyAssumption
      <4> QED BY <4>1, <4>3 DEF Announcing
    <3>6. FullLobby'
      BY <3>1, <3>4 DEF FullLobby
    <3> QED BY <3>5, <3>6
  <2>4. CASE Announce
    <3> DEFINE c == Head(group)
    <3>1. /\ stage = "announce" /\ group # <<>> /\ group' = Tail(group)
          /\ roster' = [roster EXCEPT ![port] = @ \union {c}]
          /\ UNCHANGED <<stage, port>>
      BY <2>4 DEF Announce
    <3>2. /\ c \in Members(group) /\ c \in Client /\ Len(Tail(group)) = Len(group) - 1
          /\ Members(Tail(group)) = Members(group) \ {c} /\ Len(group) \in Nat
      BY <3>1, TailDistinct DEF TypeOK, OnePlace
    <3> HIDE DEF c
    <3>3. /\ roster[port] \intersect Members(group) = {}
          /\ Cardinality(roster[port]) + Len(group) = LobbySize
      BY <3>1 DEF Announcing
    <3>4. roster'[port] = roster[port] \union {c} /\ port \in Port
      BY <3>1 DEF TypeOK
    <3>5. Cardinality(roster'[port]) = Cardinality(roster[port]) + 1
      <4>1. c \notin roster[port] /\ IsFiniteSet(roster[port])
        BY <3>2, <3>3, <3>4, <2>0
      <4> QED BY <4>1, <3>4, FS_AddElement
    <3>6. Announcing'
      <4>1. roster'[port] \intersect Members(Tail(group)) = {}
        BY <3>2, <3>3, <3>4
      <4>2. Cardinality(roster'[port]) + Len(Tail(group)) = LobbySize
        BY <3>2, <3>3, <3>4, <3>5, <2>0
      <4> QED BY <4>1, <4>2, <3>1 DEF Announcing
    <3>7. FullLobby'
      BY <3>1 DEF FullLobby, TypeOK
    <3> QED BY <3>6, <3>7
  <2>5. CASE EndAnnounce
    <3>1. /\ stage = "announce" /\ group = <<>> /\ stage' = "match"
          /\ UNCHANGED roster /\ port \in Port
      BY <2>5 DEF EndAnnounce, TypeOK
    <3>2. Cardinality(roster[port]) = LobbySize
      BY <3>1, <2>0 DEF Announcing
    <3> QED BY <3>1, <3>2 DEF Announcing, FullLobby
  <2>6. CASE EndDrain \/ SpawnFails \/ Sleep
    BY <2>6, <2>1 DEF EndDrain, SpawnFails, TakeGroup, Sleep
  <2>7. CASE UNCHANGED vars
    BY <2>7 DEF vars, Announcing, FullLobby
  <2> QED BY <2>1, <2>2, <2>3, <2>4, <2>5, <2>6, <2>7 DEF Next
<1> QED
  BY <1>1, <1>2, TypeCorrect, OnePlaceHolds, PTL DEF Spec

-----------------------------------------------------------------------------
(* The cycle of ports.                                                     *)

\* How many ports are handed out between p and the next one.
Behind(p) == IF p < next_game_port THEN next_game_port - 1 - p
             ELSE next_game_port - 1 - p + PortRange

PortCycle == \A p \in Port : spawns_since[p] >= Behind(p)

\* A port comes round again only after all the others.
THEOREM PortReuseHolds == Spec => []PortReuse
<1>1. Init => PortCycle
  BY PortAssumption DEF Init, PortCycle, Behind, Port
<1>2. TypeOK /\ PortCycle /\ [Next]_vars => PortCycle'
  <2> SUFFICES ASSUME TypeOK, PortCycle, [Next]_vars PROVE PortCycle'
    OBVIOUS
  <2>1. CASE UNCHANGED <<next_game_port, spawns_since>>
    BY <2>1 DEF PortCycle, Behind
  <2>2. CASE TakeGroup
    <3> SUFFICES ASSUME NEW p \in Port PROVE spawns_since'[p] >= Behind(p)'
      BY DEF PortCycle
    <3>1. /\ next_game_port \in Port /\ spawns_since[p] \in 0 .. PortRange
          /\ spawns_since[p] >= Behind(p)
      BY DEF TypeOK, PortCycle
    <3>2. spawns_since'[p] = IF p = next_game_port THEN 0
                             ELSE IF spawns_since[p] < PortRange
                                  THEN spawns_since[p] + 1 ELSE PortRange
      BY <2>2 DEF TakeGroup
    <3>3. next_game_port' = NextPort(next_game_port)
      BY <2>2 DEF TakeGroup
    <3> QED BY <3>1, <3>2, <3>3, PortAssumption DEF Port, Behind, NextPort
  <2>3. ASSUME NEW c \in Client, FindMatch(c) PROVE UNCHANGED <<next_game_port, spawns_since>>
    BY <2>3 DEF FindMatch, AlreadyQueued, IgnoreStaleRetry, DropWhenFull, Enqueue, vars
  <2>4. CASE SpawnServer \/ SpawnFails BY <2>4, <2>2 DEF SpawnServer, SpawnFails
  <2>5. CASE EndDrain \/ Announce \/ EndAnnounce \/ Sleep \/ UNCHANGED vars
    BY <2>5, <2>1 DEF EndDrain, Announce, EndAnnounce, Sleep, vars
  <2> QED BY <2>1, <2>3, <2>4, <2>5 DEF Next
<1>3. TypeOK /\ PortCycle => PortReuse
  BY PortAssumption DEF TypeOK, PortCycle, PortReuse, Behind, Port
<1> QED
  BY <1>1, <1>2, <1>3, TypeCorrect, PTL DEF Spec

\* Every match gets its full lobby, and the port that has been out of use the longest.
THEOREM SpawnsAreInOrder == Spec => []SpawnsInOrder
<1>1. FullLobby /\ PortReuse => SpawnsInOrder
  BY DEF SpawnsInOrder
<1> QED
  BY <1>1, FullLobbyHolds, PortReuseHolds, PTL

-----------------------------------------------------------------------------
(* The queue is a line.                                                    *)

\* Of a queue cut in two, whoever is not in the second part has nobody in it that came
\* earlier.
LEMMA CutInTurn ==
    ASSUME NEW S, NEW s \in Seq(S), NEW k \in 0 .. Len(s), Distinct(s),
           NEW i \in 1 .. Len(s), s[i] \notin Members(SubSeq(s, k + 1, Len(s))),
           NEW j \in 1 .. i
    PROVE  s[j] \notin Members(SubSeq(s, k + 1, Len(s)))
<1> DEFINE a == SubSeq(s, 1, k)
           b == SubSeq(s, k + 1, Len(s))
<1>1. /\ DOMAIN a = 1 .. k /\ \A n \in 1 .. k : a[n] = s[n]
      /\ DOMAIN b = 1 .. Len(s) - k /\ \A n \in 1 .. Len(s) - k : b[n] = s[k + n]
      /\ Len(s) \in Nat
  OBVIOUS
<1>2. Members(a) \intersect Members(b) = {}
  BY CutDistinct
<1> HIDE DEF a, b
<1>3. i <= k
  <2> SUFFICES ASSUME i > k PROVE FALSE
    OBVIOUS
  <2>1. i - k \in 1 .. Len(s) - k /\ s[k + (i - k)] = s[i]
    BY <1>1
  <2>2. b[i - k] \in Members(b) /\ b[i - k] = s[i]
    BY <2>1, <1>1 DEF Members
  <2> QED
    BY <2>2 DEF b
<1>4. s[j] \in Members(a)
  <2>1. j \in 1 .. k /\ a[j] = s[j]
    BY <1>1, <1>3
  <2> QED
    BY <2>1, <1>1 DEF Members
<1> QED
  BY <1>2, <1>4 DEF b

LEMMA LineLeft ==
    ASSUME TypeOK, OnePlace, TakeGroup
    PROVE  Line!Leave /\ Line!FirstOf = Members(Taken) /\ Line!NoneOvertaken
<1>1. /\ wait_queue \in Seq(Client) /\ Distinct(wait_queue) /\ LobbySize \in 0 .. Len(wait_queue)
      /\ wait_queue' = SubSeq(wait_queue, LobbySize + 1, Len(wait_queue))
      /\ Len(wait_queue) >= LobbySize
  BY LobbyAssumption DEF TakeGroup, TypeOK, OnePlace
<1>2. Line!Leave
  BY <1>1 DEF Line!Leave
<1>3. DOMAIN Taken = 1 .. LobbySize /\ \A i \in 1 .. LobbySize : Taken[i] = wait_queue[i]
  BY <1>1 DEF Taken
<1>4. Line!FirstOf = Members(Taken)
  BY <1>3 DEF Line!FirstOf, Members
<1>5. Line!NoneOvertaken
  <2>1. ASSUME NEW i \in 1 .. Len(wait_queue), wait_queue[i] \notin Members(wait_queue'),
               NEW j \in 1 .. i
        PROVE  wait_queue[j] \notin Members(wait_queue')
    BY <2>1, <1>1, CutInTurn
  <2>2. Line!Waiting' = Members(wait_queue') /\ DOMAIN wait_queue = 1 .. Len(wait_queue)
    BY <1>1 DEF Line!Waiting, Members
  <2> QED
    BY <2>1, <2>2 DEF Line!NoneOvertaken
<1> QED
  BY <1>2, <1>4, <1>5

\* A step that leaves the queue alone and remembers nobody new.
LEMMA LineForgets ==
    ASSUME UNCHANGED wait_queue,
           (Members(group) \union Remembered)' \subseteq Members(group) \union Remembered
    PROVE  Line!Forget /\ Line!NoneOvertaken
BY DEF Line!Forget, Line!NoneOvertaken, Line!Waiting, Members

\* Every step of the matchmaker is a step of the line, or none.
LEMMA LineStep ==
    ASSUME TypeOK, OnePlace, GroupOnlyAnnounced, [Next]_vars
    PROVE  [Line!Next]_(Line!vars) /\ Line!NoneOvertaken
<1> DEFINE Sent == Members(group) \union Remembered
<1>1. ASSUME NEW c \in Client, FindMatch(c)
      PROVE  Line!Next /\ Line!NoneOvertaken
  <2>1. CASE Enqueue(c)
    <3>1. /\ wait_queue' = Append(wait_queue, c) /\ c \notin Members(wait_queue)
          /\ recently_matched' = Pruned /\ UNCHANGED group /\ stage = "drain"
          /\ wait_queue \in Seq(Client) /\ Distinct(wait_queue)
      BY <2>1 DEF Enqueue, TypeOK, OnePlace
    <3>2. c \notin Remembered'
      BY <2>1 DEF Enqueue, CoolingDown, Remembered
    <3>3. Members(group) = {} /\ Members(group)' = {}
      BY <3>1 DEF GroupOnlyAnnounced, Members
    <3>4. Remembered' \subseteq Remembered
      BY <3>1 DEF Remembered, Pruned
    <3>5. Line!Join(c)
      BY <3>1, <3>2, <3>3, <3>4 DEF Line!Join, Line!Waiting, Members
    <3>6. Members(wait_queue') = Members(wait_queue) \union {c}
      BY <3>1, AppendDistinct
    <3>7. Line!NoneOvertaken
      BY <3>6 DEF Line!NoneOvertaken, Line!Waiting, Members
    <3> QED
      BY <3>5, <3>7 DEF Line!Next
  <2>2. CASE AlreadyQueued(c) \/ IgnoreStaleRetry(c) \/ DropWhenFull(c)
    <3>1. recently_matched' \subseteq recently_matched /\ UNCHANGED <<wait_queue, group>>
      BY <2>2 DEF AlreadyQueued, IgnoreStaleRetry, DropWhenFull, Pruned, vars
    <3>2. Sent' \subseteq Sent
      BY <3>1 DEF Remembered, Members
    <3> QED
      BY <3>1, <3>2, LineForgets DEF Line!Next
  <2> QED
    BY <1>1, <2>1, <2>2 DEF FindMatch
<1>2. CASE SpawnServer
  <2>1. /\ TakeGroup /\ group' = Taken /\ UNCHANGED recently_matched /\ group = <<>>
    BY <1>2 DEF SpawnServer, TakeGroup, GroupOnlyAnnounced
  <2>2. Members(group) = {} /\ Members(group)' = Members(Taken) /\ Remembered' = Remembered
    BY <2>1 DEF Members, Remembered
  <2>3. Line!Call
    BY <2>1, <2>2, LineLeft DEF Line!Call
  <2> QED
    BY <2>1, <2>3, LineLeft DEF Line!Next
<1>3. CASE SpawnFails
  <2>1. TakeGroup /\ UNCHANGED <<recently_matched, group>>
    BY <1>3 DEF SpawnFails
  <2>2. Sent' = Sent
    BY <2>1 DEF Members, Remembered
  <2>3. Line!Drop
    BY <2>1, <2>2, LineLeft DEF Line!Drop
  <2> QED
    BY <2>1, <2>3, LineLeft DEF Line!Next
<1>4. CASE Announce
  <2> DEFINE c == Head(group)
  <2>1. /\ group # <<>> /\ group' = Tail(group)
        /\ MarkRecentlyMatched(c) /\ UNCHANGED wait_queue
    BY <1>4 DEF Announce
  <2>2. /\ c \in Members(group) /\ c \in Client
        /\ Members(Tail(group)) = Members(group) \ {c}
    BY <2>1, TailDistinct DEF TypeOK, OnePlace
  <2>3. recently_matched' \subseteq recently_matched \union {[addr |-> c, matched_at_ms |-> now]}
    BY <2>1, <2>2, MarkAdds
  <2> HIDE DEF c
  <2>4. Remembered' \subseteq Remembered \union {c}
    BY <2>3 DEF Remembered
  <2>5. Members(group)' = Members(group) \ {c}
    BY <2>1, <2>2 DEF Members
  <2>6. Sent' \subseteq Sent
    BY <2>2, <2>4, <2>5
  <2> QED
    BY <2>1, <2>6, LineForgets DEF Line!Next
<1>5. CASE EndDrain \/ EndAnnounce \/ Sleep \/ UNCHANGED vars
  <2>1. UNCHANGED <<wait_queue, group, recently_matched>>
    BY <1>5 DEF EndDrain, EndAnnounce, Sleep, vars
  <2>2. Sent' \subseteq Sent
    BY <2>1 DEF Members, Remembered
  <2> QED
    BY <2>1, <2>2, LineForgets DEF Line!Next
<1> QED
  BY <1>1, <1>2, <1>3, <1>4, <1>5 DEF Next

\* The matchmaker implements the line: the first lobby_size leave it together and in the
\* order they came, to one match, and none of them joins again while it is remembered.
THEOREM LineKept == Spec => KeepsTheLine
<1>1. Init => Line!Init
  BY DEF Init, Line!Init, Members, Remembered
<1>2. TypeOK /\ (OnePlace /\ GroupOnlyAnnounced) /\ [Next]_vars
         => [Line!Next]_(Line!vars) /\ Line!NoneOvertaken
  BY LineStep
<1> QED
  BY <1>1, <1>2, TypeCorrect, Placed, PTL DEF Spec, KeepsTheLine, Line!Spec, Line!InTurn

-----------------------------------------------------------------------------
(* The cooldown list.                                                      *)

\* A reading shows its age one unit later as one more, short of a full turn of the clock.
LEMMA OneUnitOlder ==
    ASSUME NEW w \in Nat, 1 <= w, NEW n \in 0 .. w - 1, NEW m \in 0 .. w - 1,
           ((n - m) % w) + 1 < w
    PROVE  (((n + 1) % w) - m) % w = ((n - m) % w) + 1
<1> DEFINE q == (n - m) \div w
           d == (n - m) % w
           p == (n + 1) \div w
           s == (n + 1) % w
           r == (s - m) \div w
           t == (s - m) % w
           x == q - p - r
<1>1. q \in Int /\ d \in 0 .. w - 1 /\ n - m = w * q + d
  OBVIOUS
<1>2. p \in Int /\ s \in 0 .. w - 1 /\ n + 1 = w * p + s
  OBVIOUS
<1> HIDE DEF s
<1>3. r \in Int /\ t \in 0 .. w - 1 /\ s - m = w * r + t
  BY <1>2
<1>4. d + 1 < w
  OBVIOUS
<1> HIDE DEF q, d, p, r, t
<1>5. x \in Int /\ w * x = w * q - w * p - w * r
  BY <1>1, <1>2, <1>3
<1> HIDE DEF x
<1>6. w * x = t - (d + 1)
  BY <1>1, <1>2, <1>3, <1>5
<1>7. (x >= 1 => w * x >= w) /\ (x <= -1 => w * x <= -w)
  BY <1>5
<1>8. x = 0
  BY <1>1, <1>3, <1>4, <1>5, <1>6, <1>7
<1>9. t = d + 1
  BY <1>1, <1>3, <1>6, <1>8
<1> QED
  BY <1>9 DEF t, d, s

\* The entry of a client matched less than a cooldown ago shows its true age: the
\* clock cannot have come round since.
EntriesTrue ==
    \A e \in recently_matched : age[e.addr] < Cooldown => Elapsed(e) = age[e.addr]

\* So pruning never drops it.
LEMMA PruneKeepsYoung ==
    ASSUME TypeOK, EntriesTrue, NEW e \in recently_matched, age[e.addr] < Cooldown
    PROVE  e \in Pruned
BY DEF EntriesTrue, Pruned

LEMMA SleepEntries ==
    ASSUME TypeOK, EntriesTrue, Sleep PROVE EntriesTrue'
<1>1. /\ recently_matched' = recently_matched /\ now' = (now + 1) % ClockWrap
      /\ age' = [c \in Client |-> IF age[c] < Cooldown THEN age[c] + 1 ELSE Cooldown]
  BY DEF Sleep
<1> SUFFICES ASSUME NEW e \in recently_matched, age'[e.addr] < Cooldown
             PROVE  Elapsed(e)' = age'[e.addr]
  BY <1>1 DEF EntriesTrue
<1> DEFINE m == e.matched_at_ms
<1>2. /\ e.addr \in Client /\ m \in 0 .. ClockWrap - 1 /\ now \in 0 .. ClockWrap - 1
      /\ age[e.addr] \in 0 .. Cooldown
  BY DEF TypeOK, Recent
<1>3. age[e.addr] < Cooldown /\ age'[e.addr] = age[e.addr] + 1
  BY <1>1, <1>2, ClockAssumption
<1>4. Elapsed(e) = age[e.addr]
  BY <1>3 DEF EntriesTrue
<1>5. (now - m) % ClockWrap = age[e.addr]
  BY <1>4 DEF Elapsed
<1> HIDE DEF m
<1>6. ((now - m) % ClockWrap) + 1 < ClockWrap
  BY <1>2, <1>3, <1>5, ClockAssumption
<1>7. (((now + 1) % ClockWrap) - m) % ClockWrap = ((now - m) % ClockWrap) + 1
  <2>1. ClockWrap \in Nat /\ 1 <= ClockWrap
    BY ClockAssumption
  <2> QED
    BY ONLY <1>2, <1>6, <2>1, OneUnitOlder
<1> QED
  BY <1>1, <1>3, <1>5, <1>7 DEF Elapsed, m

LEMMA AnnounceEntries ==
    ASSUME TypeOK, OnePlace, EntriesTrue, Announce PROVE EntriesTrue'
<1> DEFINE c == Head(group)
           entry == [addr |-> c, matched_at_ms |-> now]
<1>1. /\ MarkRecentlyMatched(c) /\ age' = [age EXCEPT ![c] = 0] /\ now' = now
      /\ group # <<>>
  BY DEF Announce
<1>2. c \in Members(group) /\ c \in Client
  BY <1>1, TailDistinct DEF TypeOK, OnePlace
<1>3. recently_matched' \subseteq recently_matched \union {entry}
  BY <1>1, <1>2, MarkAdds
<1>4. \A e \in recently_matched : e.addr # c /\ e.addr \in Client
  BY <1>2 DEF OnePlace, Remembered, TypeOK, Recent
<1>5. now - now = 0 /\ 0 % ClockWrap = 0
  BY ClockAssumption DEF TypeOK
<1>6. entry.addr = c /\ entry.matched_at_ms = now
  OBVIOUS
<1> HIDE DEF c, entry
<1>7. age'[c] = 0 /\ \A e \in recently_matched : age'[e.addr] = age[e.addr]
  BY <1>1, <1>2, <1>4 DEF TypeOK
<1>8. ASSUME NEW e \in recently_matched', age'[e.addr] < Cooldown
      PROVE  Elapsed(e)' = age'[e.addr]
  <2>1. CASE e \in recently_matched
    BY <2>1, <1>1, <1>7, <1>8 DEF EntriesTrue, Elapsed
  <2>2. CASE e = entry
    BY <2>2, <1>1, <1>5, <1>6, <1>7 DEF Elapsed
  <2> QED
    BY <2>1, <2>2, <1>3
<1> QED
  BY <1>8 DEF EntriesTrue

\* The clients matched no earlier than c.
Later(c) == {d \in Client \ {c} : age[d] <= age[c]}

LEMMA LaterFinite ==
    ASSUME NEW S \in SUBSET Client
    PROVE  IsFiniteSet(S) /\ Cardinality(S) \in Nat
           /\ \A T \in SUBSET S : Cardinality(T) <= Cardinality(S)
BY ClientAssumption, FS_Subset, FS_CardinalityType

\* No two entries are of one client, so there are as many clients as entries.
LEMMA AddrCount ==
    ASSUME OnePlace, NEW S \in SUBSET recently_matched, IsFiniteSet(S)
    PROVE  Cardinality({e.addr : e \in S}) = Cardinality(S)
<1> DEFINE M == {e.addr : e \in S}
           f == [e \in S |-> e.addr]
<1>1. f \in [S -> M] /\ \A e \in S : f[e] = e.addr
  OBVIOUS
<1>2. \A t \in M : \E e \in S : f[e] = t
  BY <1>1
<1> HIDE DEF f
<1>3. f \in Surjection(S, M)
  BY <1>1, <1>2 DEF Surjection
<1>4. f \in Injection(S, M)
  BY <1>1 DEF Injection, IsInjective, OnePlace
<1> HIDE DEF M
<1>5. Cardinality(M) = Cardinality(S)
  BY <1>3, <1>4, FS_Surjection
<1> QED
  BY <1>5 DEF M

\* Whoever is pushed out of a full list has all the others, and the newcomer, behind it.
LEMMA EvictedIsOldest ==
    ASSUME TypeOK, OnePlace, IsFiniteSet(recently_matched),
           NEW c \in Client, c \notin Remembered, age' = [age EXCEPT ![c] = 0],
           NEW e \in Oldest(Pruned), Cardinality(Pruned) >= MaxQueue
    PROVE  Cardinality(Later(e.addr)') >= MaxQueue
<1> DEFINE S == Pruned \ {e}
           A == {f.addr : f \in S}
<1>1. /\ Pruned \subseteq recently_matched /\ e \in Pruned
      /\ \A f \in Pruned : age[f.addr] <= age[e.addr]
  BY DEF Pruned, Oldest
<1>2. IsFiniteSet(Pruned) /\ IsFiniteSet(S) /\ Cardinality(Pruned) \in Nat
  BY <1>1, FS_Subset, FS_CardinalityType
<1>3. Cardinality(S) = Cardinality(Pruned) - 1
  BY <1>1, <1>2, FS_RemoveElement
<1>4. Cardinality(A) = Cardinality(S)
  BY <1>1, <1>2, AddrCount
<1>5. /\ \A f \in recently_matched : f.addr \in Client /\ f.addr # c
      /\ \A f \in recently_matched : f.addr = e.addr => f = e
  BY <1>1 DEF OnePlace, Remembered, TypeOK, Recent
<1>6. A \subseteq Client /\ c \notin A /\ e.addr \notin A /\ e.addr # c /\ e.addr \in Client
  BY <1>1, <1>5
<1>7. A \union {c} \subseteq Later(e.addr)'
  <2>1. \A d \in A : age[d] <= age[e.addr]
    BY <1>1
  <2>2. age'[c] = 0 /\ \A d \in Client : d # c => age'[d] = age[d]
    BY DEF TypeOK
  <2>3. age[e.addr] \in 0 .. Cooldown
    BY <1>6 DEF TypeOK
  <2> HIDE DEF A
  <2> QED
    BY <2>1, <2>2, <2>3, <1>6, ClockAssumption DEF Later
<1> HIDE DEF A, S
<1>8. IsFiniteSet(A) /\ Cardinality(A \union {c}) = Cardinality(A) + 1
  <2>1. IsFiniteSet(A)
    BY <1>6, ClientAssumption, FS_Subset
  <2> QED
    BY <2>1, <1>6, FS_AddElement
<1>9. Cardinality(A \union {c}) <= Cardinality(Later(e.addr)')
  <2>1. Later(e.addr)' \in SUBSET Client
    BY DEF Later
  <2> QED
    BY <2>1, <1>7, LaterFinite
<1>10. Cardinality(A) + 1 = Cardinality(Pruned)
  BY <1>2, <1>3, <1>4
<1>11. Cardinality(Later(e.addr)') \in Nat
  BY LaterFinite DEF Later
<1> QED
  BY <1>2, <1>8, <1>9, <1>10, <1>11, LobbyAssumption

\* The crowd behind a client only grows until it is matched again.
LEMMA LaterGrows ==
    ASSUME NEW c \in Client, Later(c) \subseteq Later(c)', Cardinality(Later(c)) >= MaxQueue
    PROVE  Cardinality(Later(c)') >= MaxQueue
<1>1. /\ Later(c)' \in SUBSET Client /\ Later(c) \in SUBSET Later(c)'
      /\ Later(c) \in SUBSET Client
  BY DEF Later
<1>2. Cardinality(Later(c)) <= Cardinality(Later(c)')
  BY <1>1, LaterFinite
<1>3. Cardinality(Later(c)) \in Nat /\ Cardinality(Later(c)') \in Nat
  BY <1>1, LaterFinite
<1> QED
  BY <1>2, <1>3, LobbyAssumption

\* CooldownKept with what makes it inductive.
CooldownInv == CooldownKept /\ EntriesTrue /\ IsFiniteSet(recently_matched)

LEMMA SubsetSmaller ==
    ASSUME IsFiniteSet(recently_matched), Cardinality(recently_matched) <= MaxQueue,
           recently_matched' \subseteq recently_matched
    PROVE  IsFiniteSet(recently_matched') /\ Cardinality(recently_matched') <= MaxQueue
<1>1. /\ IsFiniteSet(recently_matched')
      /\ Cardinality(recently_matched') <= Cardinality(recently_matched)
  BY FS_Subset
<1>2. Cardinality(recently_matched') \in Nat /\ Cardinality(recently_matched) \in Nat
  BY <1>1, FS_CardinalityType
<1> QED
  BY <1>1, <1>2, LobbyAssumption

\* Pruning, or leaving the list alone, while nobody is matched.
LEMMA PruneCooldown ==
    ASSUME TypeOK, CooldownInv, recently_matched' \in {recently_matched, Pruned},
           UNCHANGED <<now, age>>
    PROVE  /\ IsFiniteSet(recently_matched') /\ Cardinality(recently_matched') <= MaxQueue
           /\ EntriesTrue' /\ CooldownRemembered'
<1>1. recently_matched' \subseteq recently_matched
  BY DEF Pruned
<1>2. IsFiniteSet(recently_matched') /\ Cardinality(recently_matched') <= MaxQueue
  BY <1>1, SubsetSmaller DEF CooldownInv, CooldownKept, WithinCapacity
<1>3. EntriesTrue'
  BY <1>1 DEF CooldownInv, EntriesTrue, Elapsed
<1>4. \A c \in Client : age[c] < Cooldown /\ c \in Remembered => c \in Remembered'
  BY PruneKeepsYoung DEF CooldownInv, Remembered
<1> QED
  BY <1>2, <1>3, <1>4 DEF CooldownInv, CooldownKept, CooldownRemembered

LEMMA AnnounceCooldown ==
    ASSUME TypeOK, OnePlace, CooldownInv, Announce PROVE CooldownInv'
<1> DEFINE c == Head(group)
           entry == [addr |-> c, matched_at_ms |-> now]
<1>1. /\ MarkRecentlyMatched(c) /\ age' = [age EXCEPT ![c] = 0]
      /\ group # <<>> /\ group' = Tail(group) /\ UNCHANGED wait_queue
  BY DEF Announce
<1>2. c \in Members(group) /\ c \in Client /\ Len(Tail(group)) = Len(group) - 1
  BY <1>1, TailDistinct DEF TypeOK, OnePlace
<1>3. /\ recently_matched' \subseteq recently_matched \union {entry}
      /\ entry \in recently_matched' /\ entry.addr = c
  BY <1>1, <1>2, MarkAdds
<1>4. c \notin Remembered
  BY <1>2 DEF OnePlace
<1>5. \/ Cardinality(Pruned) < MaxQueue /\ recently_matched' = Pruned \union {entry}
      \/ /\ Cardinality(Pruned) >= MaxQueue
         /\ \E e \in Oldest(Pruned) : recently_matched' = (Pruned \ {e}) \union {entry}
  <2>1. Cardinality(Pruned) \in Nat
    BY FS_Subset, FS_CardinalityType DEF Pruned, CooldownInv
  <2> QED
    BY <2>1, <1>1, LobbyAssumption DEF MarkRecentlyMatched
<1> HIDE DEF c, entry
<1>6. IsFiniteSet(Pruned) /\ Cardinality(Pruned) \in Nat /\ Cardinality(Pruned) <= MaxQueue
  <2>1. IsFiniteSet(Pruned) /\ Cardinality(Pruned) <= Cardinality(recently_matched)
    BY FS_Subset DEF Pruned, CooldownInv
  <2>2. Cardinality(Pruned) \in Nat /\ Cardinality(recently_matched) \in Nat
    BY <2>1, FS_CardinalityType DEF CooldownInv
  <2> QED
    BY <2>1, <2>2, LobbyAssumption DEF CooldownInv, CooldownKept, WithinCapacity
<1>7. IsFiniteSet(recently_matched') /\ Cardinality(recently_matched') <= MaxQueue
  <2>1. CASE Cardinality(Pruned) < MaxQueue /\ recently_matched' = Pruned \union {entry}
    <3>1. /\ IsFiniteSet(Pruned \union {entry})
          /\ Cardinality(Pruned \union {entry})
                = IF entry \in Pruned THEN Cardinality(Pruned) ELSE Cardinality(Pruned) + 1
      BY <1>6, FS_AddElement
    <3> QED
      BY <3>1, <2>1, <1>6, LobbyAssumption
  <2>2. ASSUME NEW e \in Oldest(Pruned), recently_matched' = (Pruned \ {e}) \union {entry}
        PROVE  IsFiniteSet(recently_matched') /\ Cardinality(recently_matched') <= MaxQueue
    <3>1. e \in Pruned
      BY DEF Oldest
    <3>2. IsFiniteSet(Pruned \ {e}) /\ Cardinality(Pruned \ {e}) = Cardinality(Pruned) - 1
      BY <3>1, <1>6, FS_RemoveElement
    <3>3. /\ IsFiniteSet((Pruned \ {e}) \union {entry})
          /\ Cardinality((Pruned \ {e}) \union {entry})
                = IF entry \in Pruned \ {e} THEN Cardinality(Pruned \ {e})
                  ELSE Cardinality(Pruned \ {e}) + 1
      BY <3>2, FS_AddElement
    <3> QED
      BY <3>2, <3>3, <2>2, <1>6, LobbyAssumption
  <2> QED
    BY <2>1, <2>2, <1>5
<1>8. WithinCapacity'
  BY <1>1, <1>2, <1>7, LobbyAssumption DEF WithinCapacity, CooldownInv, CooldownKept, TypeOK
<1>9. EntriesTrue'
  BY AnnounceEntries DEF CooldownInv
<1>10. CooldownRemembered'
  <2> SUFFICES ASSUME NEW x \in Client, age'[x] < Cooldown, x \notin Remembered'
               PROVE  Cardinality(Later(x)') >= MaxQueue
    BY DEF CooldownRemembered, Later
  <2>1. x # c
    BY <1>3 DEF Remembered
  <2>2. age'[c] = 0 /\ \A d \in Client : d # c => age'[d] = age[d]
    BY <1>1, <1>2 DEF TypeOK
  <2>3. \A d \in Client : age[d] \in 0 .. Cooldown
    BY DEF TypeOK
  <2>4. CASE x \in Remembered
    <3>1. PICK e \in recently_matched : e.addr = x
      BY <2>4 DEF Remembered
    <3>2. e \in Pruned
      BY <3>1, <2>1, <2>2, PruneKeepsYoung DEF CooldownInv
    <3>3. e \notin recently_matched'
      BY <3>1 DEF Remembered
    <3>4. e \in Oldest(Pruned) /\ Cardinality(Pruned) >= MaxQueue
      BY <3>2, <3>3, <1>5
    <3> QED
      BY <3>1, <3>4, <1>1, <1>2, <1>4, EvictedIsOldest DEF CooldownInv
  <2>5. CASE x \notin Remembered
    <3>1. age[x] < Cooldown
      BY <2>1, <2>2
    <3>2. Cardinality(Later(x)) >= MaxQueue
      BY <3>1, <2>5 DEF CooldownInv, CooldownKept, CooldownRemembered, Later
    <3>3. Later(x) \subseteq Later(x)'
      BY <2>1, <2>2, <2>3, ClockAssumption DEF Later
    <3> QED
      BY <3>2, <3>3, LaterGrows
  <2> QED
    BY <2>4, <2>5
<1> QED
  BY <1>7, <1>8, <1>9, <1>10 DEF CooldownInv, CooldownKept

LEMMA SleepCooldown == ASSUME TypeOK, CooldownInv, Sleep PROVE CooldownInv'
<1>1. /\ UNCHANGED <<recently_matched, wait_queue, group>>
      /\ age' = [c \in Client |-> IF age[c] < Cooldown THEN age[c] + 1 ELSE Cooldown]
  BY DEF Sleep
<1>2. WithinCapacity'
  BY <1>1 DEF WithinCapacity, CooldownInv, CooldownKept
<1>3. CooldownRemembered'
  <2> SUFFICES ASSUME NEW x \in Client, age'[x] < Cooldown, x \notin Remembered'
               PROVE  Cardinality(Later(x)') >= MaxQueue
    BY DEF CooldownRemembered, Later
  <2>1. \A d \in Client : age[d] \in 0 .. Cooldown
    BY DEF TypeOK
  <2>2. age[x] < Cooldown /\ age'[x] = age[x] + 1
    BY <2>1, <1>1, ClockAssumption
  <2>3. Cardinality(Later(x)) >= MaxQueue
    BY <2>2, <1>1 DEF CooldownInv, CooldownKept, CooldownRemembered, Later, Remembered
  <2>4. Later(x) \subseteq Later(x)'
    BY <2>1, <2>2, <1>1, ClockAssumption DEF Later
  <2> QED
    BY <2>3, <2>4, LaterGrows
<1> QED
  BY <1>1, <1>2, <1>3, SleepEntries DEF CooldownInv, CooldownKept

\* Neither array outgrows MAX_QUEUE, and a client is forgotten early only when the list
\* is full of clients matched no earlier.
THEOREM CooldownIsKept == Spec => []CooldownKept
<1>1. Init => CooldownInv
  <2> SUFFICES ASSUME Init PROVE CooldownInv
    OBVIOUS
  <2>1. IsFiniteSet({}) /\ Cardinality({}) = 0
    BY FS_EmptySet
  <2>2. WithinCapacity
    BY <2>1, LobbyAssumption DEF Init, WithinCapacity
  <2> QED
    BY <2>1, <2>2, ClockAssumption
       DEF Init, CooldownInv, CooldownKept, CooldownRemembered, EntriesTrue
<1>2. TypeOK /\ OnePlace /\ CooldownInv /\ [Next]_vars => CooldownInv'
  <2> SUFFICES ASSUME TypeOK, OnePlace, CooldownInv, [Next]_vars PROVE CooldownInv'
    OBVIOUS
  <2>1. ASSUME Len(wait_queue') <= MaxQueue, Len(group') <= LobbySize, UNCHANGED <<now, age>>,
               recently_matched' \in {recently_matched, Pruned}
        PROVE  CooldownInv'
    BY <2>1, PruneCooldown DEF CooldownInv, CooldownKept, WithinCapacity
  <2>2. ASSUME NEW c \in Client, FindMatch(c) PROVE CooldownInv'
    <3>1. UNCHANGED <<now, age, group>> /\ recently_matched' \in {recently_matched, Pruned}
      BY <2>2 DEF FindMatch, AlreadyQueued, IgnoreStaleRetry, DropWhenFull, Enqueue, vars
    <3>2. Len(wait_queue') <= MaxQueue
      <4>1. CASE Enqueue(c)
        <5>1. /\ wait_queue' = Append(wait_queue, c) /\ Len(wait_queue) < MaxQueue
              /\ wait_queue \in Seq(Client)
          BY <4>1 DEF Enqueue, TypeOK
        <5> QED
          BY <5>1, LobbyAssumption
      <4>2. CASE ~Enqueue(c)
        BY <4>2, <2>2 DEF FindMatch, AlreadyQueued, IgnoreStaleRetry, DropWhenFull, vars,
                          CooldownInv, CooldownKept, WithinCapacity
      <4> QED
        BY <4>1, <4>2
    <3> QED
      BY <3>1, <3>2, <2>1 DEF CooldownInv, CooldownKept, WithinCapacity
  <2>3. CASE SpawnServer \/ SpawnFails
    <3>1. /\ TakeGroup /\ UNCHANGED <<recently_matched, now, age>>
          /\ group' = group \/ group' = Taken
      BY <2>3 DEF SpawnServer, SpawnFails
    <3>2. /\ wait_queue \in Seq(Client) /\ LobbySize \in 0 .. Len(wait_queue)
          /\ wait_queue' = SubSeq(wait_queue, LobbySize + 1, Len(wait_queue))
      BY <3>1, LobbyAssumption DEF TakeGroup, TypeOK
    <3>3. Len(Taken) = LobbySize /\ Len(wait_queue') <= Len(wait_queue)
      BY <3>2 DEF Taken
    <3>4. Len(group') <= LobbySize
      BY <3>1, <3>3, LobbyAssumption DEF CooldownInv, CooldownKept, WithinCapacity
    <3>5. Len(wait_queue') <= MaxQueue
      BY <3>2, <3>3, LobbyAssumption DEF CooldownInv, CooldownKept, WithinCapacity
    <3> QED
      BY <3>1, <3>4, <3>5, <2>1
  <2>4. CASE EndDrain \/ EndAnnounce \/ UNCHANGED vars
    <3>1. UNCHANGED <<wait_queue, group, recently_matched, now, age>>
      BY <2>4 DEF EndDrain, EndAnnounce, vars
    <3> QED
      BY <3>1, <2>1 DEF CooldownInv, CooldownKept, WithinCapacity
  <2> QED
    BY <2>2, <2>3, <2>4, AnnounceCooldown, SleepCooldown DEF Next
<1>3. CooldownInv => CooldownKept
  BY DEF CooldownInv
<1> QED
  BY <1>1, <1>2, <1>3, TypeCorrect, OnePlaceHolds, PTL DEF Spec

=============================================================================
