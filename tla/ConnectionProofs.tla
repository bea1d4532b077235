-------------------------- MODULE ConnectionProofs --------------------------
(***************************************************************************)
(* Theorems about the connection actor, for any number of requests, closes *)
(* and multiplex ids, any limit, and any deadlines.                        *)
(*                                                                         *)
(*   TypeCorrect     Spec => []TypeOK                                      *)
(*   IndexInOrder    Spec => []IndexAgrees                                 *)
(*   CountInOrder    Spec => []ChargingCounts                              *)
(*   CapacityHeld    Spec => []Capacity                                    *)
(*   WindowRuns      Spec => []SilenceWindow                               *)
(*   HooksInStep     Spec => HooksAgree                                    *)
(*   IdentityHeld    Spec => []IdsHeld                                     *)
(*   CrosstalkFree   Spec => []NoCrosstalk                                 *)
(*                                                                         *)
(* All but the last two hold against any server whatever; those two are    *)
(* about a server that answers only what it was asked.                     *)
(***************************************************************************)
EXTENDS Connection, FiniteSetTheorems, TLAPS

-----------------------------------------------------------------------------
(* The request table: what every method preserves.  A lemma says nothing of *)
(* who calls the method; it states the condition on the row under which its *)
(* caller may call it, and the actor is shown to meet those conditions.     *)

Steps == {"Continuing", "Completed", "Corrupted"}

\* What the three parts of the table owe each other between method calls.
TableInv == TableTypeOK /\ IndexAgrees /\ ChargingCounts

-----------------------------------------------------------------------------
(* Rows. *)

\* The give-up time is a positive natural number, so that its product with the
\* overall deadline need not be looked into again.
LEMMA GiveUpType == GiveUp \in Nat /\ GiveUp > 0
  <1>1. ASSUME NEW a \in Nat \ {0}, NEW b \in Nat \ {0}
        PROVE  a * b \in Nat /\ a * b > 0
    OBVIOUS
  <1> QED
    BY <1>1, TableAssumption DEF GiveUp

\* Every row a method writes is a row.
LEMMA RowTypes ==
    /\ FreeRow \in Row
    /\ \A c \in Calls : OnWireRow(c) \in Row
    /\ \A row \in Row : /\ LapsedRow(row) \in Row
                        /\ RetiredRow(row) \in Row
                        /\ Touch(row) \in Row
                        /\ \A step \in Steps : RowAfter(row, step) \in Row
  <1>1. 0 \in 0 .. PerRequest /\ 0 \in 0 .. Overall /\ 0 \in 0 .. GiveUp
    BY GiveUpType, TableAssumption
  <1>2. PerRequest \in 0 .. PerRequest /\ Overall \in 0 .. Overall
    BY TableAssumption
  <1>3. GiveUp \in 0 .. GiveUp
    BY GiveUpType
  <1>4. FreeRow \in Row
    BY <1>1 DEF Row, FreeRow
  <1>5. ASSUME NEW c \in Calls PROVE OnWireRow(c) \in Row
    BY <1>1, <1>2 DEF Row, OnWireRow
  <1>6. ASSUME NEW row \in Row
        PROVE  /\ LapsedRow(row) \in Row
               /\ RetiredRow(row) \in Row
               /\ Touch(row) \in Row
    BY <1>1, <1>2, <1>3 DEF Row, LapsedRow, RetiredRow, Touch
  <1>7. ASSUME NEW row \in Row, NEW step \in Steps
        PROVE  RowAfter(row, step) \in Row
    BY <1>4, <1>6 DEF RowAfter, Steps
  <1> QED
    BY <1>4, <1>5, <1>6, <1>7

\* A deadline in the index is a natural number.
LEMMA ExpiryType ==
    ASSUME NEW row \in Row
    PROVE  ExpiresAt(row) \in Nat
  BY GiveUpType, TableAssumption DEF Row, ExpiresAt, Earlier

\* The rows that charge are a finite set.
LEMMA OnWireFinite ==
    /\ IsFiniteSet(Mids)
    /\ IsFiniteSet(OnWire) /\ Cardinality(OnWire) \in Nat
    /\ IsFiniteSet(OnWire') /\ Cardinality(OnWire') \in Nat
  <1>1. IsFiniteSet(Mids)
    BY FS_Interval, TableAssumption DEF Mids
  <1>2. OnWire \in SUBSET Mids /\ OnWire' \in SUBSET Mids
    BY DEF OnWire
  <1> QED
    BY <1>1, <1>2, FS_Subset, FS_CardinalityType

-----------------------------------------------------------------------------
(* Methods. *)

\* RequestTable::new: an empty table satisfies the invariant.
LEMMA InitTable == TableInit => TableInv
  <1> SUFFICES ASSUME TableInit PROVE TableInv
    OBVIOUS
  <1> USE DEF TableInit
  <1>1. TableTypeOK
    BY RowTypes, TableAssumption DEF TableTypeOK, Mids
  <1>2. IndexAgrees
    BY DEF IndexAgrees, HasDeadline, FreeRow
  <1>3. OnWire = {}
    BY DEF OnWire, Charges, FreeRow
  <1>4. ChargingCounts
    BY <1>3, FS_EmptySet DEF ChargingCounts
  <1> QED
    BY <1>1, <1>2, <1>4 DEF TableInv

\* Dispatch may be called with an id that no row holds.
LEMMA DispatchTable ==
    ASSUME TableInv, NEW m \in Mids, NEW c \in Calls,
           table[m].state = "Free", Dispatch(m, c)
    PROVE  TableInv' /\ OnWire' = OnWire \cup {m} /\ m \notin OnWire
  <1> USE DEF TableInv
  <1>1. table' \in [Mids -> Row]
    BY RowTypes DEF Dispatch, TableTypeOK
  <1>2. <<Earlier(PerRequest, Overall), m>> \in Nat \X Mids
    BY TableAssumption DEF Earlier
  <1>3. TableTypeOK'
    BY <1>1, <1>2 DEF TableTypeOK, Dispatch
  <1>4. OnWire' = OnWire \cup {m} /\ m \notin OnWire
    BY DEF OnWire, Charges, Dispatch, TableTypeOK, OnWireRow
  <1>5. ChargingCounts'
    BY <1>4, OnWireFinite, FS_AddElement DEF ChargingCounts, Dispatch
  <1>6. IndexAgrees'
    <2> DEFINE Live == {k \in Mids : HasDeadline(table[k])}
    <2>1. {k \in Mids : HasDeadline(table'[k])} = Live \cup {m}
      BY DEF Dispatch, TableTypeOK, HasDeadline, OnWireRow
    <2>2. \A k \in Live : table'[k] = table[k]
      BY DEF Dispatch, TableTypeOK, HasDeadline
    <2>3. ExpiresAt(table'[m]) = Earlier(PerRequest, Overall)
      BY DEF Dispatch, TableTypeOK, ExpiresAt, OnWireRow
    <2>4. expiry = {<<ExpiresAt(table[k]), k>> : k \in Live}
      BY DEF IndexAgrees
    <2>5. expiry' = expiry \cup {<<Earlier(PerRequest, Overall), m>>}
      BY DEF Dispatch
    <2> HIDE DEF Live
    <2>6. expiry' = {<<ExpiresAt(table'[k]), k>> : k \in Live \cup {m}}
      BY <2>2, <2>3, <2>4, <2>5
    <2> QED
      BY <2>1, <2>6 DEF IndexAgrees
  <1> QED
    BY <1>3, <1>4, <1>5, <1>6

\* Accept may be called with an id whose row is on the wire or lapsed.
LEMMA AcceptTable ==
    ASSUME TableInv, NEW m \in Mids, NEW step \in Steps,
           HasDeadline(table[m]), Accept(m, step)
    PROVE  /\ TableInv'
           /\ OnWire' = IF step = "Continuing" THEN OnWire ELSE OnWire \ {m}
           /\ charging' <= charging
  <1> USE DEF TableInv
  <1> DEFINE after == RowAfter(table[m], step)
  <1>1. after \in Row /\ table' = [table EXCEPT ![m] = after]
    BY RowTypes DEF Accept, TableTypeOK
  <1>2. /\ HasDeadline(after) <=> step = "Continuing"
        /\ Charges(after) <=> Charges(table[m]) /\ step = "Continuing"
    BY DEF RowAfter, Touch, HasDeadline, Charges, FreeRow, RetiredRow, Steps,
           TableTypeOK, Row
  <1> HIDE DEF after
  <1>3. OnWire' = IF step = "Continuing" THEN OnWire ELSE OnWire \ {m}
    BY <1>1, <1>2 DEF OnWire, TableTypeOK
  <1>4. m \in OnWire <=> Charges(table[m])
    BY DEF OnWire
  <1>5. charging' = ChargingAfter(table[m], step)
    BY DEF Accept
  <1>6. charging' = Cardinality(OnWire')
    <2>1. CASE step = "Continuing"
      BY <2>1, <1>3, <1>5 DEF ChargingAfter, ChargingCounts
    <2>2. CASE step # "Continuing"
      BY <2>2, <1>3, <1>4, <1>5, OnWireFinite, FS_RemoveElement
      DEF ChargingAfter, ChargingCounts
    <2> QED
      BY <2>1, <2>2
  <1>7. ChargingCounts' /\ charging' \in Nat /\ charging' <= charging
    BY <1>5, <1>6, OnWireFinite DEF ChargingCounts, ChargingAfter, TableTypeOK
  <1> DEFINE Live == {k \in Mids : HasDeadline(table[k])}
  <1>8. expiry = {<<ExpiresAt(table[k]), k>> : k \in Live} /\ m \in Live
    BY DEF IndexAgrees
  <1>9. {k \in Mids : HasDeadline(table'[k])}
          = IF step = "Continuing" THEN Live ELSE Live \ {m}
    BY <1>1, <1>2 DEF TableTypeOK
  <1>10. \A k \in Mids \ {m} : table'[k] = table[k]
    BY <1>1 DEF TableTypeOK
  <1>11. table'[m] = after
    BY <1>1 DEF TableTypeOK
  <1>12. expiry' = (expiry \ {<<ExpiresAt(table[m]), m>>})
                     \cup (IF step = "Continuing"
                           THEN {<<ExpiresAt(after), m>>} ELSE {})
    BY <1>2 DEF Accept, Reindex, Indexed, after
  <1>13. \A k \in Live : k \in Mids
    OBVIOUS
  <1> HIDE DEF Live
  <1>14. IndexAgrees'
    <2>1. CASE step = "Continuing"
      <3>1. expiry' = {<<ExpiresAt(table'[k]), k>> : k \in Live}
        BY <2>1, <1>8, <1>10, <1>11, <1>12, <1>13
      <3> QED
        BY <2>1, <3>1, <1>9 DEF IndexAgrees
    <2>2. CASE step # "Continuing"
      <3>1. expiry' = {<<ExpiresAt(table'[k]), k>> : k \in Live \ {m}}
        BY <2>2, <1>8, <1>10, <1>12, <1>13
      <3> QED
        BY <2>2, <3>1, <1>9 DEF IndexAgrees
    <2> QED
      BY <2>1, <2>2
  <1>15. <<ExpiresAt(after), m>> \in Nat \X Mids
    BY <1>1, ExpiryType
  <1>16. retired' \in Nat /\ cursor' \in Mids
    BY DEF Accept, TableTypeOK
  <1>17. expiry' \in SUBSET (Nat \X Mids)
    BY <1>12, <1>15 DEF TableTypeOK
  <1>18. TableTypeOK'
    BY <1>1, <1>7, <1>16, <1>17 DEF TableTypeOK
  <1> QED
    BY <1>3, <1>7, <1>14, <1>18

\* Expire may be called whenever the table is in order.
LEMMA ExpireTable ==
    ASSUME TableInv, Expire
    PROVE  /\ TableInv'
           /\ OnWire' = OnWire \ Lapsing
           /\ charging' <= charging
           /\ \A m \in Due : HasDeadline(table[m])
           /\ \A m \in GivenUp : table[m].state = "Lapsed"
  <1> USE DEF TableInv
  <1> DEFINE Live == {k \in Mids : HasDeadline(table[k])}
  <1>1. expiry = {<<ExpiresAt(table[k]), k>> : k \in Live}
    BY DEF IndexAgrees
  <1>2. /\ Due \subseteq Live
        /\ \A k \in Due : ExpiresAt(table[k]) = 0
        /\ \A k \in Live \ Due : ExpiresAt(table[k]) # 0
    BY <1>1 DEF Due
  <1>3. /\ Lapsing \subseteq Due /\ GivenUp = Due \ Lapsing
        /\ Live \subseteq Mids /\ Due \subseteq Mids
    BY DEF Lapsing, GivenUp, Due
  <1>4. \A m \in GivenUp : table[m].state = "Lapsed"
    BY <1>2 DEF GivenUp, Lapsing, HasDeadline, Charges
  <1>5. \A k \in Mids :
          table'[k] = IF k \in Lapsing THEN LapsedRow(table[k])
                      ELSE IF k \in GivenUp THEN RetiredRow(table[k])
                      ELSE table[k]
    BY DEF Expire
  <1>6. table' \in [Mids -> Row]
    BY RowTypes DEF Expire, TableTypeOK
  <1>7. /\ \A k \in Lapsing : /\ table'[k].state = "Lapsed"
                             /\ ExpiresAt(table'[k]) = GiveUp
        /\ \A k \in GivenUp : table'[k].state = "Retired"
        /\ \A k \in Mids \ Due : table'[k] = table[k]
    BY <1>3, <1>5 DEF LapsedRow, RetiredRow, ExpiresAt, TableTypeOK, Row
  <1>8. OnWire' = OnWire \ Lapsing
    BY <1>2, <1>3, <1>4, <1>7 DEF OnWire, Charges
  <1>9. Lapsing \subseteq OnWire
    BY <1>3 DEF Lapsing, OnWire
  <1>10. IsFiniteSet(Lapsing) /\ IsFiniteSet(GivenUp)
    BY <1>3, OnWireFinite, FS_Subset
  <1>11. Cardinality(OnWire') = Cardinality(OnWire) - Cardinality(Lapsing)
    BY <1>8, <1>9, <1>10, OnWireFinite, FS_Difference
  <1>12. Cardinality(Lapsing) \in Nat /\ Cardinality(GivenUp) \in Nat
    BY <1>10, FS_CardinalityType
  <1>13. ChargingCounts' /\ charging' \in Nat /\ charging' <= charging
    BY <1>11, <1>12, OnWireFinite DEF Expire, ChargingCounts, TableTypeOK
  <1>14. {k \in Mids : HasDeadline(table'[k])} = (Live \ Due) \cup Lapsing
    BY <1>2, <1>3, <1>7 DEF HasDeadline
  <1>15. expiry' = (expiry \ {<<0, m>> : m \in Due})
                     \cup {<<GiveUp, m>> : m \in Lapsing}
    BY DEF Expire
  <1> HIDE DEF Live
  <1>16. expiry' = {<<ExpiresAt(table'[k]), k>> : k \in (Live \ Due) \cup Lapsing}
    <2>1. expiry \ {<<0, m>> : m \in Due}
            = {<<ExpiresAt(table[k]), k>> : k \in Live \ Due}
      BY <1>1, <1>2
    <2>2. {<<ExpiresAt(table[k]), k>> : k \in Live \ Due}
            = {<<ExpiresAt(table'[k]), k>> : k \in Live \ Due}
      BY <1>3, <1>7
    <2>3. {<<GiveUp, m>> : m \in Lapsing}
            = {<<ExpiresAt(table'[k]), k>> : k \in Lapsing}
      BY <1>7
    <2> QED
      BY <1>15, <2>1, <2>2, <2>3
  <1>17. IndexAgrees'
    BY <1>14, <1>16 DEF IndexAgrees
  <1>18. expiry' \in SUBSET (Nat \X Mids)
    BY <1>3, <1>15, GiveUpType DEF TableTypeOK
  <1>19. retired' \in Nat /\ cursor' \in Mids
    BY <1>12 DEF Expire, TableTypeOK
  <1>20. TableTypeOK'
    BY <1>6, <1>13, <1>18, <1>19 DEF TableTypeOK
  <1>21. \A m \in Due : HasDeadline(table[m])
    BY <1>2 DEF Live
  <1> QED
    BY <1>4, <1>8, <1>13, <1>17, <1>20, <1>21

\* FailAll leaves a table with no row in it.
LEMMA FailAllTable ==
    ASSUME TableInv, FailAll, retired' \in Nat, cursor' \in Mids
    PROVE  /\ TableInv'
           /\ OnWire' = {}
           /\ charging' = 0
  <1> USE DEF TableInv, FailAll
  <1>1. TableTypeOK'
    BY RowTypes DEF TableTypeOK
  <1>2. IndexAgrees'
    BY DEF IndexAgrees, HasDeadline, FreeRow
  <1>3. OnWire' = {}
    BY DEF OnWire, Charges, FreeRow
  <1>4. ChargingCounts'
    BY <1>3, FS_EmptySet DEF ChargingCounts
  <1> QED
    BY <1>1, <1>2, <1>3, <1>4

\* Time passing moves every deadline and its index entry together.
LEMMA ElapseTable ==
    ASSUME TableInv, Elapse
    PROVE  TableInv' /\ OnWire' = OnWire
  <1> USE DEF TableInv
  <1>1. \A n \in Nat : Down(n) \in Nat /\ Down(n) <= n
    BY DEF Down
  <1>2. ASSUME NEW k \in Mids
        PROVE  /\ table'[k] \in Row
               /\ table'[k].state = table[k].state
               /\ table'[k].owner = table[k].owner
               /\ table'[k].silence = Down(table[k].silence)
               /\ table'[k].overall = Down(table[k].overall)
               /\ table'[k].giveUp = Down(table[k].giveUp)
    <2>1. table[k] \in Row
      BY DEF TableTypeOK
    <2>2. table'[k] = [table[k] EXCEPT !.silence = Down(@), !.overall = Down(@),
                                       !.giveUp = Down(@)]
      BY DEF Elapse
    <2>3. /\ Down(table[k].silence) \in 0 .. PerRequest
          /\ Down(table[k].overall) \in 0 .. Overall
          /\ Down(table[k].giveUp) \in 0 .. GiveUp
      BY <2>1, <1>1, GiveUpType, TableAssumption DEF Row
    <2> QED
      BY <2>1, <2>2, <2>3 DEF Row
  <1>3. table' \in [Mids -> Row]
    BY <1>2 DEF Elapse
  <1>4. OnWire' = OnWire
    BY <1>2 DEF OnWire, Charges
  <1>5. ChargingCounts'
    BY <1>4 DEF ChargingCounts, Elapse
  <1>6. ASSUME NEW k \in Mids
        PROVE  ExpiresAt(table'[k]) = Down(ExpiresAt(table[k]))
    <2>1. table[k] \in Row
      BY DEF TableTypeOK
    <2>2. /\ table[k].silence \in Nat
          /\ table[k].overall \in Nat
      BY <2>1, TableAssumption DEF Row
    <2> QED
      BY <1>2, <2>2 DEF ExpiresAt, Earlier, Down
  <1> DEFINE Live == {k \in Mids : HasDeadline(table[k])}
  <1>7. {k \in Mids : HasDeadline(table'[k])} = Live
    BY <1>2 DEF HasDeadline
  <1>8. expiry = {<<ExpiresAt(table[k]), k>> : k \in Live}
    BY DEF IndexAgrees
  <1>9. expiry' = {<<Down(e[1]), e[2]>> : e \in expiry}
    BY DEF Elapse
  <1>10. Live \subseteq Mids
    OBVIOUS
  <1> HIDE DEF Live
  <1>11. expiry' = {<<Down(ExpiresAt(table[k])), k>> : k \in Live}
    <2> DEFINE Moved(e) == <<Down(e[1]), e[2]>>
               At(k) == <<ExpiresAt(table[k]), k>>
    <2>1. \A k \in Live : At(k) \in expiry
      BY <1>8
    <2>2. \A e \in expiry : \E k \in Live : e = At(k)
      BY <1>8
    <2>3. \A k : Moved(At(k)) = <<Down(ExpiresAt(table[k])), k>>
      OBVIOUS
    <2>4. expiry' = {Moved(e) : e \in expiry}
      BY <1>9
    <2> HIDE DEF Moved, At
    <2>5. expiry' = {Moved(At(k)) : k \in Live}
      BY <2>1, <2>2, <2>4
    <2> QED
      BY <2>3, <2>5
  <1>12. expiry' = {<<ExpiresAt(table'[k]), k>> : k \in Live}
    BY <1>6, <1>10, <1>11
  <1>13. IndexAgrees'
    BY <1>7, <1>12 DEF IndexAgrees
  <1>14. expiry' \in SUBSET (Nat \X Mids)
    BY <1>1, <1>9 DEF TableTypeOK
  <1>15. TableTypeOK'
    BY <1>3, <1>14 DEF TableTypeOK, Elapse
  <1> QED
    BY <1>4, <1>5, <1>13, <1>15

-----------------------------------------------------------------------------
(* The actor's inductive invariant. *)

\* The types of what is not the table's, the flags apart from the rest.
FlagTypeOK ==
    /\ pc \in {"top", "parked", "ended"}
    /\ armed \in [close : BOOLEAN, request : BOOLEAN]
    /\ requestsDone \in BOOLEAN
    /\ closesDone \in BOOLEAN
    /\ waiting \in BOOLEAN
    /\ handlesHeld \in BOOLEAN

QueueTypeOK ==
    /\ consecutiveCloses \in Nat
    /\ writing \in [call : Calls \cup {Nobody}, mid : Mids, begun : BOOLEAN]
    /\ silentFor \in 0 .. Overall
    /\ requests \in Seq(Requests)
    /\ closes \in Seq(Closes)
    /\ dropped \in SUBSET Closes
    /\ owed \in SUBSET (Mids \X Calls)

CallerTypeOK ==
    /\ caller \in [Requests -> {"idle", "sending", "waiting", "gone", "ended"}]
    /\ result \in [Requests -> Outcome]
    /\ hooks \in [Requests -> Seq(Outcome)]

\* Why the limit is never passed.  The top of the loop arms a channel only with
\* the write slot empty and the count below the limit; nothing raises the count
\* but the first byte of the one frame in that slot; so the room seen at the
\* top is still there when that byte goes out.
Admission ==
    /\ armed.close \/ armed.request => writing = Idle /\ charging < Limit
    /\ writing # Idle => writing.call \in Calls
    /\ writing # Idle /\ ~writing.begun
         => charging < Limit /\ table[writing.mid].state = "Free"
    /\ charging <= Limit

Window == waiting <=> charging > 0

Inv == FlagTypeOK /\ QueueTypeOK /\ CallerTypeOK /\ TableInv /\ Admission /\ Window

-----------------------------------------------------------------------------
(* Lemmas about the operators the handlers share. *)

\* What a handler tells is an outcome.
Tells(told) == \A c \in DOMAIN told : told[c] \in Outcome

\* Every way a request ends is an outcome.
LEMMA OutcomeTypes ==
    /\ \A k \in {"none", "reply", "corrupt", "timeout", "refused", "lost",
                 "unsent"} : Ended(k) \in Outcome
    /\ \A c \in Calls \cup {Nobody} : ReplyTo(c) \in Outcome
  BY DEF Outcome, Ended, ReplyTo

\* Ending any set of requests leaves every caller, result and hook well typed.
LEMMA ConcludeType ==
    ASSUME CallerTypeOK, NEW told, NEW cut, Tells(told), Conclude(told, cut)
    PROVE  CallerTypeOK'
  <1>1. Ended("lost") \in Outcome
    BY OutcomeTypes
  <1>2. caller' \in [Requests -> {"idle", "sending", "waiting", "gone", "ended"}]
    BY DEF CallerTypeOK, Conclude
  <1>3. result' \in [Requests -> Outcome]
    BY <1>1 DEF CallerTypeOK, Conclude, Tells
  <1>4. \A r \in Requests :
          (IF r \in DOMAIN told /\ r \in Hooked
           THEN Append(hooks[r], told[r]) ELSE hooks[r]) \in Seq(Outcome)
    BY DEF CallerTypeOK, Tells
  <1>5. hooks' \in [Requests -> Seq(Outcome)]
    BY <1>4 DEF Conclude
  <1> QED
    BY <1>2, <1>3, <1>5 DEF CallerTypeOK

\* The empty write slot is a write slot.
LEMMA IdleType ==
    Idle \in [call : Calls \cup {Nobody}, mid : Mids, begun : BOOLEAN]
  BY TableAssumption DEF Idle, Mids

\* The end of the connection, however it comes, leaves everything in order.
LEMMA FailInv ==
    ASSUME Inv, NEW told, Tells(told), Fail(told),
           retired' \in Nat, cursor' \in Mids, consecutiveCloses' \in Nat
    PROVE  Inv'
  <1> DEFINE live == {table[m].owner : m \in OnWire}
             all == [c \in DOMAIN told \cup live |->
                       IF c \in DOMAIN told THEN told[c] ELSE Ended("lost")]
  <1>1. Tells(all)
    BY OutcomeTypes DEF Tells
  <1>2. Conclude(all, Requests) /\ FailAll
    BY DEF Fail
  <1> HIDE DEF all
  <1>3. CallerTypeOK'
    BY <1>1, <1>2, ConcludeType DEF Inv
  <1>4. TableInv' /\ charging' = 0
    BY <1>2, FailAllTable DEF Inv
  <1>5. /\ writing' = Idle /\ armed' = [close |-> FALSE, request |-> FALSE]
        /\ waiting' = FALSE /\ pc' = "ended" /\ requests' = <<>>
        /\ closes' = <<>> /\ owed' = {}
        /\ UNCHANGED <<requestsDone, closesDone, dropped, handlesHeld,
                       silentFor>>
    BY DEF Fail
  <1>6. FlagTypeOK'
    BY <1>5 DEF Inv, FlagTypeOK
  <1>8. QueueTypeOK'
    BY <1>5, IdleType DEF Inv, QueueTypeOK
  <1>7. Admission' /\ Window'
    BY <1>4, <1>5, TableAssumption DEF Admission, Window
  <1> QED
    BY <1>3, <1>4, <1>6, <1>7, <1>8 DEF Inv

\* A failure met with the table as it stands keeps the invariant.
LEMMA FailNowInv == Inv /\ FailNow => Inv'
  <1> SUFFICES ASSUME Inv, FailNow PROVE Inv'
    OBVIOUS
  <1> DEFINE none == [c \in {} |-> Ended("lost")]
  <1>1. Fail(none)
    BY DEF FailNow
  <1>2. Tells(none)
    BY DEF Tells
  <1>3. retired' \in Nat /\ cursor' \in Mids /\ consecutiveCloses' \in Nat
    BY DEF FailNow, Inv, TableInv, TableTypeOK, QueueTypeOK
  <1> HIDE DEF none
  <1> QED
    BY <1>1, <1>2, <1>3, FailInv

\* The cursor never leaves the ids that may be issued.
LEMMA CursorType == ASSUME NEW m \in Mids PROVE CursorAfter(m) \in Mids
  BY TableAssumption DEF CursorAfter, Mids

\* The invariant holds of a connection just spawned.
LEMMA InitInv == Init => Inv
  <1> SUFFICES ASSUME Init PROVE Inv
    OBVIOUS
  <1>1. TableInv /\ charging = 0
    BY InitTable DEF Init, TableInit
  <1>2. FlagTypeOK
    BY DEF Init, FlagTypeOK
  <1>6. QueueTypeOK
    BY IdleType, TableAssumption DEF Init, QueueTypeOK
  <1>3. Ended("none") \in Outcome
    BY OutcomeTypes
  <1>4. CallerTypeOK
    BY <1>3 DEF Init, CallerTypeOK
  <1>5. Admission /\ Window
    BY <1>1, TableAssumption DEF Init, Admission, Window
  <1> QED
    BY <1>1, <1>2, <1>4, <1>5, <1>6 DEF Inv

-----------------------------------------------------------------------------
(* Every action preserves the invariant. *)

\* A step that leaves the table alone leaves it in order.
LEMMA TableSame == TableInv /\ UNCHANGED tableVars => TableInv'
  BY DEF tableVars, TableInv, TableTypeOK, IndexAgrees, ChargingCounts, OnWire

\* The rows, counters and flags an action leaves alone, it leaves in order.
LEMMA AdmissionSame ==
    ASSUME Inv, UNCHANGED <<tableVars, writing, waiting>>,
           armed' = armed \/ armed' = [close |-> FALSE, request |-> FALSE]
    PROVE  TableInv' /\ Admission' /\ Window'
  BY TableSame DEF Inv, Admission, Window, tableVars

\* What callers do on their own touches neither the table nor the write.
LEMMA CallersInv == Inv /\ Callers => Inv'
  <1> SUFFICES ASSUME Inv, Callers PROVE Inv'
    OBVIOUS
  <1> USE DEF actorVars, channelVars, callerVars
  <1>1. UNCHANGED <<tableVars, actorVars, owed>>
    BY DEF Callers, Call, Send, SendFails, Leave, EnqueueClose, DropHandles
  <1>2. TableInv' /\ Admission' /\ Window'
    BY <1>1, AdmissionSame
  <1>3. FlagTypeOK'
    <2>1. handlesHeld' \in BOOLEAN
      BY DEF Callers, Call, Send, SendFails, Leave, EnqueueClose, DropHandles,
             Inv, FlagTypeOK
    <2> QED
      BY <1>1, <2>1 DEF Inv, FlagTypeOK
  <1>4. requests' \in Seq(Requests)
    BY SMTT(40) DEF Callers, Call, Send, SendFails, Leave, EnqueueClose,
                    DropHandles, Inv, QueueTypeOK
  <1>5. closes' \in Seq(Closes) /\ dropped' \in SUBSET Closes
    <2>1. CASE UNCHANGED <<closes, dropped>>
      BY <2>1 DEF Inv, QueueTypeOK
    <2>2. ASSUME NEW c \in Closes, EnqueueClose(c)
          PROVE  closes' \in Seq(Closes) /\ dropped' \in SUBSET Closes
      BY <2>2 DEF EnqueueClose, Inv, QueueTypeOK
    <2>3. UNCHANGED <<closes, dropped>> \/ \E c \in Closes : EnqueueClose(c)
      BY DEF Callers, Call, Send, SendFails, Leave, DropHandles
    <2> QED
      BY <2>1, <2>2, <2>3
  <1>6. QueueTypeOK'
    BY <1>1, <1>4, <1>5 DEF Inv, QueueTypeOK
  <1>7. Ended("unsent") \in Outcome
    BY OutcomeTypes
  <1>8. CallerTypeOK'
    <2>1. UNCHANGED hooks
      BY DEF Callers, Call, Send, SendFails, Leave, EnqueueClose, DropHandles
    <2>2. ASSUME NEW r \in Requests, Call(r) \/ Send(r) \/ SendFails(r) \/ Leave(r)
          PROVE  CallerTypeOK'
      <3>1. /\ \E end \in {"sending", "waiting", "gone", "ended"} :
                  caller' = [caller EXCEPT ![r] = end]
            /\ \/ UNCHANGED result
               \/ result' = [result EXCEPT ![r] = Ended("unsent")]
        BY <2>2 DEF Call, Send, SendFails, Leave
      <3> QED
        BY <1>7, <2>1, <3>1 DEF Inv, CallerTypeOK
    <2>3. CASE UNCHANGED callerVars
      BY <2>3 DEF Inv, CallerTypeOK
    <2>4. \/ \E r \in Requests : Call(r) \/ Send(r) \/ SendFails(r) \/ Leave(r)
          \/ UNCHANGED callerVars
      BY DEF Callers, EnqueueClose, DropHandles
    <2> QED
      BY <2>2, <2>3, <2>4
  <1> QED
    BY <1>2, <1>3, <1>6, <1>8 DEF Inv

\* The top of the loop arms a channel only where begin() will find room.
LEMMA ArmInv == Inv /\ Arm => Inv'
  <1> SUFFICES ASSUME Inv, Arm PROVE Inv'
    OBVIOUS
  <1> USE DEF channelVars, callerVars, Arm
  <1>1. TableInv'
    BY TableSame DEF Inv
  <1>2. FlagTypeOK'
    BY DEF Inv, FlagTypeOK, TakeClose, TakeRequest, CanAdmit
  <1>3. QueueTypeOK'
    BY DEF Inv, QueueTypeOK, RunSoFar
  <1>4. CallerTypeOK'
    BY DEF Inv, CallerTypeOK
  <1>5. Admission' /\ Window'
    BY DEF Inv, Admission, Window, TakeClose, TakeRequest, CanAdmit, tableVars
  <1> QED
    BY <1>1, <1>2, <1>3, <1>4, <1>5 DEF Inv

\* begin(): what it may leave behind is the write slot filled, with room still
\* below the limit and an id no row holds.
LEMMA BeginInv ==
    ASSUME Inv, NEW c \in Calls, Begin(c), writing = Idle, charging < Limit
    PROVE  /\ TableInv' /\ Admission' /\ Window' /\ CallerTypeOK'
           /\ Continue
           /\ UNCHANGED <<silentFor, waiting, owed>>
           /\ writing' \in [call : Calls \cup {Nobody}, mid : Mids,
                            begun : BOOLEAN]
  <1>1. CASE NotSent(c)
    <2>1. Tells([r \in {c} |-> Ended("lost")])
      BY OutcomeTypes DEF Tells
    <2>2. CallerTypeOK'
      BY <1>1, <2>1, ConcludeType DEF NotSent, Inv
    <2>3. UNCHANGED <<tableVars, writing, silentFor, waiting, owed>> /\ Continue
      BY <1>1 DEF NotSent
    <2>4. TableInv' /\ Admission' /\ Window'
      BY <2>3, AdmissionSame DEF Continue
    <2> QED
      BY <2>2, <2>3, <2>4 DEF Inv, QueueTypeOK
  <1>2. CASE NotEncoded(c)
    <2>1. Tells([r \in {c} |-> Ended("refused")])
      BY OutcomeTypes DEF Tells
    <2>2. CallerTypeOK'
      BY <1>2, <2>1, ConcludeType DEF NotEncoded, Inv
    <2>3. /\ UNCHANGED <<table, expiry, charging, retired, writing, silentFor,
                         waiting, owed>>
          /\ Continue
          /\ cursor' \in Mids
      BY <1>2, CursorType DEF NotEncoded
    <2>4. TableInv'
      BY <2>3 DEF Inv, TableInv, TableTypeOK, IndexAgrees, ChargingCounts,
                  OnWire
    <2>5. Admission' /\ Window'
      BY <2>3 DEF Inv, Admission, Window, Continue
    <2> QED
      BY <2>2, <2>3, <2>4, <2>5 DEF Inv, QueueTypeOK
  <1>3. CASE Begun(c)
    <2>1. PICK m \in Mids : /\ Allocates(m)
                            /\ cursor' = CursorAfter(m)
                            /\ writing' = [call |-> c, mid |-> m, begun |-> FALSE]
      BY <1>3 DEF Begun
    <2>2. /\ UNCHANGED <<table, expiry, charging, retired, silentFor, waiting,
                         callerVars, owed>>
          /\ Continue
      BY <1>3 DEF Begun
    <2>3. cursor' \in Mids
      BY <2>1, CursorType
    <2>4. TableInv'
      BY <2>2, <2>3 DEF Inv, TableInv, TableTypeOK, IndexAgrees,
                        ChargingCounts, OnWire
    <2>5. CallerTypeOK'
      BY <2>2 DEF Inv, CallerTypeOK, callerVars
    <2>6. table'[m].state = "Free"
      BY <2>1, <2>2 DEF Allocates, FreeMids
    <2>7. Admission' /\ Window'
      BY <2>1, <2>2, <2>6 DEF Inv, Admission, Window, Continue
    <2> QED
      BY <2>1, <2>2, <2>4, <2>5, <2>7
  <1> QED
    BY <1>1, <1>2, <1>3 DEF Begin

\* Taking a request or a close, or failing because every id is held.
LEMMA TakenInv == Inv /\ (CloseTaken \/ RequestTaken) => Inv'
  <1>1. ASSUME Inv, CloseTaken PROVE Inv'
    <2>1. CASE FailNow
      BY <1>1, <2>1, FailNowInv
    <2>2. CASE /\ Begin(Head(closes))
               /\ closes' = Tail(closes)
               /\ consecutiveCloses' = consecutiveCloses + 1
               /\ UNCHANGED <<requestsDone, closesDone, requests, dropped,
                              handlesHeld>>
      <3>1. Head(closes) \in Calls /\ Tail(closes) \in Seq(Closes)
        BY <1>1, ConnectionAssumption DEF CloseTaken, Inv, QueueTypeOK
      <3>2. writing = Idle /\ charging < Limit
        BY <1>1 DEF CloseTaken, Inv, Admission
      <3>3. /\ TableInv' /\ Admission' /\ Window' /\ CallerTypeOK'
            /\ Continue
            /\ UNCHANGED <<silentFor, waiting, owed>>
            /\ writing' \in [call : Calls \cup {Nobody}, mid : Mids,
                             begun : BOOLEAN]
        BY <1>1, <2>2, <3>1, <3>2, BeginInv
      <3>4. FlagTypeOK'
        BY <1>1, <2>2, <3>3 DEF Inv, FlagTypeOK, Continue
      <3>5. QueueTypeOK'
        BY <1>1, <2>2, <3>1, <3>3 DEF Inv, QueueTypeOK
      <3> QED
        BY <3>3, <3>4, <3>5 DEF Inv
    <2> QED
      BY <1>1, <2>1, <2>2 DEF CloseTaken
  <1>2. ASSUME Inv, RequestTaken PROVE Inv'
    <2>1. CASE FailNow
      BY <1>2, <2>1, FailNowInv
    <2>2. CASE /\ Begin(Head(requests))
               /\ requests' = Tail(requests)
               /\ consecutiveCloses' = 0
               /\ UNCHANGED <<requestsDone, closesDone, closes, dropped,
                              handlesHeld>>
      <3>1. Head(requests) \in Calls /\ Tail(requests) \in Seq(Requests)
        BY <1>2, ConnectionAssumption DEF RequestTaken, Inv, QueueTypeOK
      <3>2. writing = Idle /\ charging < Limit
        BY <1>2 DEF RequestTaken, Inv, Admission
      <3>3. /\ TableInv' /\ Admission' /\ Window' /\ CallerTypeOK'
            /\ Continue
            /\ UNCHANGED <<silentFor, waiting, owed>>
            /\ writing' \in [call : Calls \cup {Nobody}, mid : Mids,
                             begun : BOOLEAN]
        BY <1>2, <2>2, <3>1, <3>2, BeginInv
      <3>4. FlagTypeOK'
        BY <1>2, <2>2, <3>3 DEF Inv, FlagTypeOK, Continue
      <3>5. QueueTypeOK'
        BY <1>2, <2>2, <3>1, <3>3 DEF Inv, QueueTypeOK
      <3> QED
        BY <3>3, <3>4, <3>5 DEF Inv
    <2> QED
      BY <1>2, <2>1, <2>2 DEF RequestTaken
  <1> QED
    BY <1>1, <1>2

\* note_waiting() makes the window agree with the count.
LEMMA WindowNoted == NoteWaiting => Window' /\ waiting' \in BOOLEAN
  <1> SUFFICES ASSUME NoteWaiting PROVE Window' /\ waiting' \in BOOLEAN
    OBVIOUS
  <1>1. waiting' = (charging' > 0)
    BY DEF NoteWaiting
  <1>2. (charging' > 0) \in BOOLEAN
    OBVIOUS
  <1>3. waiting' \in BOOLEAN
    BY <1>1, <1>2, Zenon
  <1>4. Window'
    BY <1>1, <1>2, Zenon DEF Window
  <1> QED
    BY <1>3, <1>4

\* A channel that yields None changes its own flag.
LEMMA ChannelEndInv == Inv /\ (ClosesEnd \/ RequestsEnd) => Inv'
  <1> SUFFICES ASSUME Inv, ClosesEnd \/ RequestsEnd PROVE Inv'
    OBVIOUS
  <1> USE DEF channelVars, callerVars
  <1>1. /\ UNCHANGED <<tableVars, consecutiveCloses, writing, silentFor, waiting,
                       channelVars, callerVars, owed>>
        /\ Continue
    BY DEF ClosesEnd, RequestsEnd
  <1>2. requestsDone' \in BOOLEAN /\ closesDone' \in BOOLEAN
    BY DEF ClosesEnd, RequestsEnd, Inv, FlagTypeOK
  <1>3. TableInv' /\ Admission' /\ Window'
    BY <1>1, AdmissionSame DEF Continue
  <1>4. FlagTypeOK'
    BY <1>1, <1>2 DEF Inv, FlagTypeOK, Continue
  <1>5. QueueTypeOK' /\ CallerTypeOK'
    BY <1>1 DEF Inv, QueueTypeOK, CallerTypeOK
  <1> QED
    BY <1>3, <1>4, <1>5 DEF Inv

\* wrote(): the one place the count goes up, into room that Admission kept.
LEMMA WroteInv ==
    ASSUME Inv, NEW done \in BOOLEAN, Wrote(done)
    PROVE  Inv'
  <1> USE DEF channelVars, callerVars
  <1>1. /\ UNCHANGED <<requestsDone, closesDone, consecutiveCloses, silentFor,
                       channelVars, callerVars>>
        /\ Continue /\ NoteWaiting
        /\ writing # Idle
        /\ writing' = IF done THEN Idle ELSE [writing EXCEPT !.begun = TRUE]
        /\ owed' = IF done THEN owed \cup {<<writing.mid, writing.call>>}
                   ELSE owed
    BY DEF Wrote
  <1>2. writing.call \in Calls /\ writing.mid \in Mids
    BY <1>1 DEF Inv, Admission, QueueTypeOK
  <1>3. TableInv' /\ charging' <= Limit
    <2>1. CASE writing.begun
      <3>1. UNCHANGED tableVars
        BY <2>1 DEF Wrote
      <3> QED
        BY <3>1, TableSame DEF Inv, Admission, tableVars
    <2>2. CASE ~writing.begun
      <3>1. Dispatch(writing.mid, writing.call)
        BY <2>2 DEF Wrote
      <3>2. table[writing.mid].state = "Free" /\ charging < Limit
        BY <2>2, <1>1 DEF Inv, Admission
      <3>3. TableInv'
        BY <1>2, <3>1, <3>2, DispatchTable DEF Inv
      <3>4. charging' = charging + 1 /\ charging \in Nat
        BY <3>1 DEF Dispatch, Inv, TableInv, TableTypeOK
      <3> QED
        BY <3>2, <3>3, <3>4, TableAssumption
    <2> QED
      BY <2>1, <2>2
  <1>4. writing' \in [call : Calls \cup {Nobody}, mid : Mids, begun : BOOLEAN]
    BY <1>1, IdleType DEF Inv, QueueTypeOK
  <1>5. writing' = Idle \/ (writing'.begun = TRUE /\ writing'.call \in Calls)
    BY <1>1, <1>2 DEF Inv, QueueTypeOK
  <1>6. Admission'
    BY <1>1, <1>3, <1>5 DEF Admission, Continue
  <1>7. Window' /\ waiting' \in BOOLEAN
    BY <1>1, WindowNoted
  <1>8. FlagTypeOK'
    BY <1>1, <1>7 DEF Inv, FlagTypeOK, Continue
  <1>9. QueueTypeOK' /\ CallerTypeOK'
    BY <1>1, <1>2, <1>4 DEF Inv, QueueTypeOK, CallerTypeOK
  <1> QED
    BY <1>3, <1>6, <1>7, <1>8, <1>9 DEF Inv

\* A handler that may lower the count and leaves the write slot as it is.
\* What it does to a row, it does to one that holds an id.
LEMMA HandlerInv ==
    ASSUME Inv, TableInv', CallerTypeOK', Continue, NoteWaiting,
           charging' <= charging,
           \A m \in FreeMids : table'[m] = table[m],
           UNCHANGED <<requestsDone, closesDone, consecutiveCloses, writing,
                       channelVars>>,
           silentFor' \in 0 .. Overall,
           owed' \in SUBSET (Mids \X Calls)
    PROVE  Inv'
  <1> USE DEF channelVars
  <1>1. Window' /\ waiting' \in BOOLEAN
    BY WindowNoted
  <1>2. FlagTypeOK'
    BY <1>1 DEF Inv, FlagTypeOK, Continue
  <1>3. QueueTypeOK'
    BY DEF Inv, QueueTypeOK
  <1>4. charging \in Nat /\ charging' \in Nat
    BY DEF Inv, TableInv, TableTypeOK
  <1>5. writing # Idle /\ ~writing.begun
          => /\ charging' < Limit
             /\ table'[writing.mid].state = "Free"
    BY <1>4, TableAssumption DEF Inv, Admission, FreeMids, QueueTypeOK
  <1>6. charging' <= Limit
    BY <1>4, TableAssumption DEF Inv, Admission
  <1>7. Admission'
    BY <1>5, <1>6 DEF Inv, Admission, Continue
  <1> QED
    BY <1>1, <1>2, <1>3, <1>7 DEF Inv

\* A message that is routed meets a row, takes one of three steps and tells an
\* outcome.
LEMMA FrameFacts ==
    ASSUME Inv, NEW f \in Frames, ~Unroutable(f)
    PROVE  /\ f.mid \in Mids \ FreeMids
           /\ f.of \in Calls \cup {Nobody}
           /\ table[f.mid] \in Row
           /\ table[f.mid].state # "Retired" => HasDeadline(table[f.mid])
           /\ StepOf(table[f.mid], f.kind) \in Steps
           /\ Tells(Telltale(f, table[f.mid]))
           /\ Tells([c \in {} |-> ReplyTo(f.of)])
           /\ OwedAfter(f) \in SUBSET (Mids \X Calls)
  <1>1. f \in Frame
    BY DEF Frames, Owing, Unasked
  <1>2. f.mid \in Mids \ FreeMids
    BY DEF Unroutable
  <1>3. f.of \in Calls \cup {Nobody}
    BY <1>1 DEF Frame
  <1>4. table[f.mid] \in Row
    BY <1>2 DEF Inv, TableInv, TableTypeOK
  <1>5. table[f.mid].state # "Retired" => HasDeadline(table[f.mid])
    BY <1>2, <1>4 DEF Row, HasDeadline, FreeMids
  <1>6. StepOf(table[f.mid], f.kind) \in Steps
    BY DEF StepOf, Steps
  <1>7. ReplyTo(f.of) \in Outcome /\ Ended("corrupt") \in Outcome
    BY <1>3, OutcomeTypes
  <1>8. Tells([c \in {} |-> ReplyTo(f.of)])
    BY DEF Tells
  <1>9. \A outcome \in Outcome : Tells(Telling(table[f.mid], outcome))
    BY DEF Tells, Telling
  <1>10. Tells(Telltale(f, table[f.mid]))
    BY <1>6, <1>7, <1>8, <1>9 DEF Telltale, Steps
  <1>11. OwedAfter(f) \in SUBSET (Mids \X Calls)
    BY DEF OwedAfter, Inv, QueueTypeOK
  <1> QED
    BY <1>2, <1>3, <1>4, <1>5, <1>6, <1>8, <1>10, <1>11

\* route(), where a message reaches a row that is still a request.
LEMMA RoutedInv ==
    ASSUME Inv, NEW f \in Frames, Routed(f)
    PROVE  Inv'
  <1> DEFINE step == StepOf(table[f.mid], f.kind)
             told == Telltale(f, table[f.mid])
  <1>1. ~Unroutable(f) /\ table[f.mid].state # "Retired"
    BY DEF Routed
  <1>2. /\ Accept(f.mid, step) /\ Conclude(told, {})
        /\ silentFor' = 0 /\ NoteWaiting /\ owed' = OwedAfter(f) /\ Continue
        /\ UNCHANGED <<requestsDone, closesDone, consecutiveCloses, writing,
                       channelVars>>
    BY DEF Routed
  <1>3. /\ f.mid \in Mids \ FreeMids /\ HasDeadline(table[f.mid])
        /\ step \in Steps /\ Tells(told)
        /\ OwedAfter(f) \in SUBSET (Mids \X Calls)
    BY <1>1, FrameFacts
  <1> HIDE DEF step, told
  <1>4. TableInv' /\ charging' <= charging
    BY <1>2, <1>3, AcceptTable DEF Inv
  <1>5. CallerTypeOK'
    BY <1>2, <1>3, ConcludeType DEF Inv
  <1>6. \A m \in FreeMids : table'[m] = table[m]
    BY <1>2, <1>3 DEF Accept, FreeMids, Inv, TableInv, TableTypeOK
  <1>7. silentFor' \in 0 .. Overall
    BY <1>2, TableAssumption
  <1> QED
    BY <1>2, <1>3, <1>4, <1>5, <1>6, <1>7, HandlerInv

\* route(), where a message reaches a retired id.
LEMMA DiscardedInv ==
    ASSUME Inv, NEW f \in Frames, Discarded(f)
    PROVE  Inv'
  <1>1. ~Unroutable(f)
    BY DEF Discarded
  <1>2. /\ UNCHANGED <<tableVars, requestsDone, closesDone, consecutiveCloses,
                       writing, channelVars, callerVars>>
        /\ silentFor' = 0 /\ NoteWaiting /\ owed' = OwedAfter(f) /\ Continue
    BY DEF Discarded
  <1>3. OwedAfter(f) \in SUBSET (Mids \X Calls)
    BY <1>1, FrameFacts
  <1>4. TableInv'
    BY <1>2, TableSame DEF Inv
  <1>5. CallerTypeOK'
    BY <1>2 DEF Inv, CallerTypeOK, callerVars
  <1>6. charging' <= charging /\ (\A m \in FreeMids : table'[m] = table[m])
    BY <1>2 DEF tableVars, Inv, TableInv, TableTypeOK
  <1>7. silentFor' \in 0 .. Overall
    BY <1>2, TableAssumption
  <1> QED
    BY <1>2, <1>3, <1>4, <1>5, <1>6, <1>7, HandlerInv

\* route(), where the message delivered is the last of the connection.
LEMMA RoutedLastInv ==
    ASSUME Inv, NEW f \in Frames, RoutedLast(f)
    PROVE  Inv'
  <1> DEFINE told == IF table[f.mid].state = "Retired"
                     THEN [c \in {} |-> ReplyTo(f.of)]
                     ELSE Telltale(f, table[f.mid])
  <1>1. ~Unroutable(f) /\ Fail(told)
    BY DEF RoutedLast
  <1>2. UNCHANGED <<cursor, consecutiveCloses>> /\ retired' \in {retired, retired + 1}
    BY DEF RoutedLast
  <1>3. Tells(told)
    BY <1>1, FrameFacts
  <1>4. retired' \in Nat /\ cursor' \in Mids /\ consecutiveCloses' \in Nat
    BY <1>2 DEF Inv, TableInv, TableTypeOK, QueueTypeOK
  <1> HIDE DEF told
  <1> QED
    BY <1>1, <1>3, <1>4, FailInv

\* A read that completes no frame changes nothing but the turn.
LEMMA InboundNothingInv == Inv /\ InboundNothing => Inv'
  <1> SUFFICES ASSUME Inv, InboundNothing PROVE Inv'
    OBVIOUS
  <1> USE DEF channelVars, callerVars, InboundNothing
  <1>1. TableInv' /\ Admission' /\ Window'
    BY AdmissionSame DEF Continue
  <1>2. FlagTypeOK'
    BY DEF Inv, FlagTypeOK, Continue
  <1>3. QueueTypeOK' /\ CallerTypeOK'
    BY DEF Inv, QueueTypeOK, CallerTypeOK
  <1> QED
    BY <1>1, <1>2, <1>3 DEF Inv

\* tick(): the deadlines that fire only ever lower the count.
LEMMA TicksInv == Inv /\ Ticks => Inv'
  <1> SUFFICES ASSUME Inv, Ticks PROVE Inv'
    OBVIOUS
  <1>1. /\ Expire /\ Conclude(TimedOut, {}) /\ NoteWaiting /\ Continue
        /\ UNCHANGED <<requestsDone, closesDone, consecutiveCloses, writing,
                       silentFor, channelVars, owed>>
    BY DEF Ticks
  <1>2. /\ TableInv' /\ charging' <= charging
        /\ \A m \in Due : HasDeadline(table[m])
    BY <1>1, ExpireTable DEF Inv
  <1>3. Tells(TimedOut)
    BY OutcomeTypes DEF Tells, TimedOut
  <1>4. CallerTypeOK'
    BY <1>1, <1>3, ConcludeType DEF Inv
  <1>5. \A m \in FreeMids : m \notin Due
    BY <1>2 DEF FreeMids, HasDeadline
  <1>6. \A m \in FreeMids : table'[m] = table[m]
    BY <1>1, <1>5 DEF Expire, FreeMids, Lapsing, GivenUp
  <1>7. silentFor' \in 0 .. Overall /\ owed' \in SUBSET (Mids \X Calls)
    BY <1>1 DEF Inv, QueueTypeOK
  <1> QED
    BY <1>1, <1>2, <1>4, <1>6, <1>7, HandlerInv

\* tick(), where a retirement spends the budget.
LEMMA TicksLastInv == Inv /\ TicksLast => Inv'
  <1> SUFFICES ASSUME Inv, TicksLast PROVE Inv'
    OBVIOUS
  <1> DEFINE told(reached) ==
               [c \in {table[m].owner : m \in reached} |-> Ended("timeout")]
  <1>1. PICK reached \in SUBSET Lapsing : Fail(told(reached))
    BY DEF TicksLast
  <1>2. Tells(told(reached))
    BY OutcomeTypes DEF Tells
  <1>3. retired' \in Nat /\ cursor' \in Mids /\ consecutiveCloses' \in Nat
    BY TableAssumption DEF TicksLast, Inv, TableInv, TableTypeOK, QueueTypeOK
  <1> HIDE DEF told
  <1> QED
    BY <1>1, <1>2, <1>3, FailInv

\* The clock moves no row from one state to another.
LEMMA TimePassesInv == Inv /\ TimePasses => Inv'
  <1> SUFFICES ASSUME Inv, TimePasses PROVE Inv'
    OBVIOUS
  <1> USE DEF channelVars, callerVars
  <1>1. Elapse /\ UNCHANGED <<pc, armed, requestsDone, closesDone,
                              consecutiveCloses, writing, waiting, channelVars,
                              callerVars, owed>>
    BY DEF TimePasses
  <1>2. TableInv'
    BY <1>1, ElapseTable DEF Inv
  <1>3. FlagTypeOK'
    BY <1>1 DEF Inv, FlagTypeOK
  <1>4. silentFor' \in 0 .. Overall
    BY TableAssumption DEF TimePasses, Earlier, Inv, QueueTypeOK
  <1>5. QueueTypeOK' /\ CallerTypeOK'
    BY <1>1, <1>4 DEF Inv, QueueTypeOK, CallerTypeOK
  <1>6. \A m \in Mids : table'[m].state = table[m].state
    BY <1>1 DEF Elapse, Inv, TableInv, TableTypeOK, Row
  <1>7. charging' = charging
    BY <1>1 DEF Elapse
  <1>8. Admission'
    BY <1>1, <1>6, <1>7 DEF Inv, Admission, QueueTypeOK
  <1>9. Window'
    BY <1>1, <1>7 DEF Inv, Window
  <1> QED
    BY <1>2, <1>3, <1>5, <1>8, <1>9 DEF Inv

\* A step that changes nothing.
LEMMA StutterInv == Inv /\ UNCHANGED vars => Inv'
  <1> SUFFICES ASSUME Inv, UNCHANGED vars PROVE Inv'
    OBVIOUS
  <1> USE DEF vars, actorVars, channelVars, callerVars
  <1>1. TableInv' /\ Admission' /\ Window'
    BY AdmissionSame
  <1>2. FlagTypeOK'
    BY DEF Inv, FlagTypeOK
  <1>3. QueueTypeOK' /\ CallerTypeOK'
    BY DEF Inv, QueueTypeOK, CallerTypeOK
  <1> QED
    BY <1>1, <1>2, <1>3 DEF Inv

\* The invariant is inductive: every action preserves it.
LEMMA NextInv == Inv /\ [Next]_vars => Inv'
  <1> SUFFICES ASSUME Inv, [Next]_vars PROVE Inv'
    OBVIOUS
  <1>1. CASE Callers
    BY <1>1, CallersInv
  <1>2. CASE Arm
    BY <1>2, ArmInv
  <1>3. CASE Finish
    BY <1>3, FailNowInv DEF Finish
  <1>4. CASE CloseTaken \/ RequestTaken
    BY <1>4, TakenInv
  <1>5. CASE ClosesEnd \/ RequestsEnd
    BY <1>5, ChannelEndInv
  <1>6. CASE Written
    <2>1. CASE Wrote(FALSE) \/ Wrote(TRUE)
      BY <2>1, WroteInv
    <2>2. CASE WriteFails
      BY <2>2, FailNowInv DEF WriteFails
    <2> QED
      BY <1>6, <2>1, <2>2 DEF Written
  <1>7. CASE Inbound
    <2>1. ASSUME NEW f \in Frames, Routed(f) \/ Discarded(f) \/ RoutedLast(f)
          PROVE  Inv'
      BY <2>1, RoutedInv, DiscardedInv, RoutedLastInv
    <2>2. CASE UnroutableArrives \/ InboundFails
      BY <2>2, FailNowInv DEF UnroutableArrives, InboundFails
    <2>3. CASE InboundNothing
      BY <2>3, InboundNothingInv
    <2> QED
      BY <1>7, <2>1, <2>2, <2>3 DEF Inbound
  <1>8. CASE Timer
    BY <1>8, FailNowInv, TicksInv, TicksLastInv DEF Timer, GoesSilent
  <1>9. CASE TimePasses
    BY <1>9, TimePassesInv
  <1>10. CASE Terminated
    BY <1>10, StutterInv DEF Terminated
  <1>11. CASE UNCHANGED vars
    BY <1>11, StutterInv
  <1> QED
    BY <1>1, <1>2, <1>3, <1>4, <1>5, <1>6, <1>7, <1>8, <1>9, <1>10, <1>11
    DEF Next

-----------------------------------------------------------------------------
(* Identity.  Against a server that answers only what it was asked.         *)

\* Every id the server may still answer on is held by the request it would be
\* answering.  The frame half written is why that is not inductive alone: its
\* row is in the table, the server does not owe it yet, and nothing the server
\* sends meanwhile can be on its id.
Held ==
    /\ \A e \in owed : table[e[1]].state # "Free" /\ table[e[1]].owner = e[2]
    /\ writing # Idle /\ writing.begun
         => /\ table[writing.mid].state # "Free"
            /\ table[writing.mid].owner = writing.call
            /\ \A e \in owed : e[1] # writing.mid

\* What the callers and the hooks have been given so far.
OwnReplies ==
    \A r \in Requests :
      /\ result[r].kind = "reply" => result[r].of = r
      /\ \A i \in 1 .. Len(hooks[r]) :
           hooks[r][i].kind = "reply" => hooks[r][i].of = r

Honest == Held /\ OwnReplies

\* What a handler tells is nobody else's reply.
Own(told) == \A c \in DOMAIN told : told[c].kind = "reply" => told[c].of = c

\* Telling callers only their own replies keeps what they hold their own.
LEMMA ConcludeOwn ==
    ASSUME CallerTypeOK, OwnReplies, NEW told, NEW cut,
           Tells(told), Own(told), Conclude(told, cut)
    PROVE  OwnReplies'
  <1> SUFFICES ASSUME NEW r \in Requests
               PROVE  /\ result'[r].kind = "reply" => result'[r].of = r
                      /\ \A i \in 1 .. Len(hooks'[r]) :
                           hooks'[r][i].kind = "reply" => hooks'[r][i].of = r
    BY DEF OwnReplies
  <1>1. result'[r].kind = "reply" => result'[r].of = r
    <2>1. result'[r] \in {result[r], Ended("lost")}
            \/ (r \in DOMAIN told /\ result'[r] = told[r])
      BY DEF Conclude
    <2>2. Ended("lost").kind # "reply"
      BY DEF Ended
    <2> QED
      BY <2>1, <2>2 DEF Own, OwnReplies
  <1>2. ASSUME NEW i \in 1 .. Len(hooks'[r])
        PROVE  hooks'[r][i].kind = "reply" => hooks'[r][i].of = r
    <2>1. CASE hooks'[r] = hooks[r]
      BY <1>2, <2>1 DEF OwnReplies
    <2>2. CASE r \in DOMAIN told /\ hooks'[r] = Append(hooks[r], told[r])
      <3>1. hooks[r] \in Seq(Outcome) /\ told[r] \in Outcome
        BY <2>2 DEF CallerTypeOK, Tells
      <3>2. hooks'[r][i] = told[r]
              \/ (i \in 1 .. Len(hooks[r]) /\ hooks'[r][i] = hooks[r][i])
        BY <1>2, <2>2, <3>1
      <3> QED
        BY <2>2, <3>2 DEF Own, OwnReplies
    <2>3. hooks'[r] = hooks[r]
            \/ (r \in DOMAIN told /\ hooks'[r] = Append(hooks[r], told[r]))
      BY DEF Conclude
    <2> QED
      BY <2>1, <2>2, <2>3
  <1> QED
    BY <1>1, <1>2

\* The end of the connection gives nobody a reply but what told gives.
LEMMA FailHonest ==
    ASSUME Inv, Honest, NEW told, Tells(told), Own(told), Fail(told)
    PROVE  Honest'
  <1> DEFINE live == {table[m].owner : m \in OnWire}
             all == [c \in DOMAIN told \cup live |->
                       IF c \in DOMAIN told THEN told[c] ELSE Ended("lost")]
  <1>1. Conclude(all, Requests) /\ owed' = {} /\ writing' = Idle
    BY DEF Fail
  <1>2. Tells(all)
    BY OutcomeTypes DEF Tells
  <1>3. Own(all)
    BY DEF Own, Ended
  <1> HIDE DEF all
  <1>4. OwnReplies'
    BY <1>1, <1>2, <1>3, ConcludeOwn DEF Inv, Honest
  <1>5. Held'
    BY <1>1 DEF Held
  <1> QED
    BY <1>4, <1>5 DEF Honest

\* A failure met with the table as it stands gives nobody a reply.
LEMMA FailNowHonest == Inv /\ Honest /\ FailNow => Honest'
  <1> SUFFICES ASSUME Inv, Honest, FailNow PROVE Honest'
    OBVIOUS
  <1> DEFINE none == [c \in {} |-> Ended("lost")]
  <1>1. Fail(none) /\ Tells(none) /\ Own(none)
    BY DEF FailNow, Tells, Own
  <1> HIDE DEF none
  <1> QED
    BY <1>1, FailHonest

\* A step that keeps every row's owner, frees no id, and leaves the write and
\* the server alone.
LEMMA HeldSame ==
    ASSUME Inv, Held, UNCHANGED writing, owed' \subseteq owed,
           \A m \in Mids : table[m].state # "Free"
             => /\ table'[m].state # "Free"
                /\ table'[m].owner = table[m].owner
    PROVE  Held'
  <1>1. owed \subseteq Mids \X Calls /\ writing.mid \in Mids
    BY DEF Inv, QueueTypeOK
  <1> QED
    BY <1>1 DEF Held

\* begin() puts a request in the write slot; the server owes nothing for it.
LEMMA BeginHonest ==
    ASSUME Inv, Honest, NEW c \in Calls, Begin(c), writing = Idle
    PROVE  Honest'
  <1>1. CASE NotSent(c)
    <2> DEFINE told == [r \in {c} |-> Ended("lost")]
    <2>1. Tells(told) /\ Own(told)
      BY OutcomeTypes DEF Tells, Own, Ended
    <2>2. Conclude(told, {}) /\ UNCHANGED <<tableVars, writing, owed>>
      BY <1>1 DEF NotSent
    <2> HIDE DEF told
    <2>3. OwnReplies'
      BY <2>1, <2>2, ConcludeOwn DEF Inv, Honest
    <2>4. Held'
      BY <2>2, HeldSame DEF Honest, tableVars
    <2> QED
      BY <2>3, <2>4 DEF Honest
  <1>2. CASE NotEncoded(c)
    <2> DEFINE told == [r \in {c} |-> Ended("refused")]
    <2>1. Tells(told) /\ Own(told)
      BY OutcomeTypes DEF Tells, Own, Ended
    <2>2. Conclude(told, {}) /\ UNCHANGED <<table, writing, owed>>
      BY <1>2 DEF NotEncoded
    <2> HIDE DEF told
    <2>3. OwnReplies'
      BY <2>1, <2>2, ConcludeOwn DEF Inv, Honest
    <2>4. Held'
      BY <2>2, HeldSame DEF Honest
    <2> QED
      BY <2>3, <2>4 DEF Honest
  <1>3. CASE Begun(c)
    <2>1. /\ UNCHANGED <<table, callerVars, owed>>
          /\ writing'.begun = FALSE
      BY <1>3 DEF Begun
    <2>2. OwnReplies'
      BY <2>1 DEF Honest, OwnReplies, callerVars
    <2>3. Held'
      BY <2>1 DEF Honest, Held
    <2> QED
      BY <2>2, <2>3 DEF Honest
  <1> QED
    BY <1>1, <1>2, <1>3 DEF Begin

\* Taking a request or a close keeps identity.
LEMMA TakenHonest == Inv /\ Honest /\ (CloseTaken \/ RequestTaken) => Honest'
  <1> SUFFICES ASSUME Inv, Honest, CloseTaken \/ RequestTaken PROVE Honest'
    OBVIOUS
  <1>1. closes # <<>> => Head(closes) \in Calls
    BY ConnectionAssumption DEF Inv, QueueTypeOK
  <1>2. requests # <<>> => Head(requests) \in Calls
    BY ConnectionAssumption DEF Inv, QueueTypeOK
  <1>3. writing = Idle
    BY DEF CloseTaken, RequestTaken, Inv, Admission
  <1>4. FailNow \/ \E c \in Calls : Begin(c)
    BY <1>1, <1>2 DEF CloseTaken, RequestTaken
  <1> QED
    BY <1>3, <1>4, FailNowHonest, BeginHonest

\* The server comes to owe a reply exactly when the last byte has gone out, and
\* the row has been there since the first.
LEMMA WroteHonest ==
    ASSUME Inv, Honest, NEW done \in BOOLEAN, Wrote(done)
    PROVE  Honest'
  <1>1. /\ writing # Idle /\ UNCHANGED callerVars
        /\ writing' = IF done THEN Idle ELSE [writing EXCEPT !.begun = TRUE]
        /\ owed' = IF done THEN owed \cup {<<writing.mid, writing.call>>}
                   ELSE owed
    BY DEF Wrote
  <1>2. OwnReplies'
    BY <1>1 DEF Honest, OwnReplies, callerVars
  <1>3. /\ writing.mid \in Mids /\ writing.call \in Calls
        /\ owed \subseteq Mids \X Calls
    BY <1>1 DEF Inv, Admission, QueueTypeOK
  <1>4. \A e \in owed : e[1] # writing.mid
    <2>1. CASE writing.begun
      BY <1>1, <2>1 DEF Honest, Held
    <2>2. CASE ~writing.begun
      BY <1>1, <2>2 DEF Honest, Held, Inv, Admission
    <2> QED
      BY <2>1, <2>2
  <1>5. /\ table'[writing.mid].state # "Free"
        /\ table'[writing.mid].owner = writing.call
        /\ \A m \in Mids \ {writing.mid} : table'[m] = table[m]
    <2>1. CASE writing.begun
      BY <1>1, <2>1 DEF Wrote, Honest, Held, tableVars
    <2>2. CASE ~writing.begun
      <3>1. table' = [table EXCEPT ![writing.mid] = OnWireRow(writing.call)]
        BY <2>2 DEF Wrote, Dispatch
      <3> QED
        BY <1>3, <3>1 DEF Inv, TableInv, TableTypeOK, OnWireRow
    <2> QED
      BY <2>1, <2>2
  <1>6. writing' = Idle \/ (/\ ~done
                           /\ writing'.mid = writing.mid
                           /\ writing'.call = writing.call)
    BY <1>1 DEF Inv, QueueTypeOK
  <1>7. Held'
    BY <1>1, <1>3, <1>4, <1>5, <1>6 DEF Honest, Held
  <1> QED
    BY <1>2, <1>7 DEF Honest

\* What callers do moves no row, and tells a caller nothing the server said.
LEMMA CallersHonest == Inv /\ Honest /\ Callers => Honest'
  <1> SUFFICES ASSUME Inv, Honest, Callers PROVE Honest'
    OBVIOUS
  <1> USE DEF actorVars, channelVars, callerVars
  <1>1. UNCHANGED <<table, writing, owed, hooks>>
    BY DEF Callers, Call, Send, SendFails, Leave, EnqueueClose, DropHandles,
           tableVars
  <1>2. Held'
    BY <1>1, HeldSame DEF Honest
  <1>3. \A r \in Requests : result'[r] \in {result[r], Ended("unsent")}
    BY DEF Callers, Call, Send, SendFails, Leave, EnqueueClose, DropHandles,
           Inv, CallerTypeOK
  <1>4. Ended("unsent").kind # "reply"
    BY DEF Ended
  <1>5. OwnReplies'
    BY <1>1, <1>3, <1>4 DEF Honest, OwnReplies
  <1> QED
    BY <1>2, <1>5 DEF Honest

\* The steps that touch no row, no caller and nothing the server owes.
LEMMA QuietHonest ==
    ASSUME Inv, Honest, UNCHANGED <<table, writing, owed, callerVars>>
    PROVE  Honest'
  <1>1. Held'
    BY HeldSame DEF Honest
  <1>2. OwnReplies'
    BY DEF Honest, OwnReplies, callerVars
  <1> QED
    BY <1>1, <1>2 DEF Honest

\* The clock changes no row's owner and frees no id.
LEMMA TimePassesHonest == Inv /\ Honest /\ TimePasses => Honest'
  <1> SUFFICES ASSUME Inv, Honest, TimePasses PROVE Honest'
    OBVIOUS
  <1>1. Elapse /\ UNCHANGED <<writing, callerVars, owed>>
    BY DEF TimePasses
  <1>2. \A m \in Mids : /\ table'[m].state = table[m].state
                        /\ table'[m].owner = table[m].owner
    BY <1>1 DEF Elapse, Inv, TableInv, TableTypeOK, Row
  <1>3. Held'
    BY <1>1, <1>2, HeldSame DEF Honest
  <1>4. OwnReplies'
    BY <1>1 DEF Honest, OwnReplies, callerVars
  <1> QED
    BY <1>3, <1>4 DEF Honest

\* A message from a server that answers only what it was asked meets the row of
\* the request it answers, is on no half written id, tells that request only
\* its own reply, and frees the id only if it is the last the server sends.
LEMMA OwedFrame ==
    ASSUME ~Rogue, Inv, Honest, NEW f \in Frames, ~Unroutable(f)
    PROVE  /\ <<f.mid, f.of>> \in owed
           /\ table[f.mid].owner = f.of
           /\ table[f.mid].state # "Free"
           /\ writing # Idle /\ writing.begun => f.mid # writing.mid
           /\ Own(Telltale(f, table[f.mid]))
           /\ StepOf(table[f.mid], f.kind) = "Completed" => Settles(f)
  <1>1. f \in Owing
    BY DEF Frames
  <1>2. /\ <<f.mid, f.of>> \in owed /\ f \in Frame
        /\ f.command = Command[f.of]
        /\ f.kind \in {"Part", "Last", "Bad"} => f.command \in Transactions
    BY <1>1 DEF Owing
  <1>3. /\ table[f.mid].owner = f.of /\ table[f.mid].state # "Free"
        /\ writing # Idle /\ writing.begun => f.mid # writing.mid
    BY <1>2 DEF Honest, Held
  <1>4. StepOf(table[f.mid], f.kind) = "Completed" => Settles(f)
    BY <1>2, <1>3 DEF StepOf, Settles, Frame, Kinds
  <1>5. Own(Telling(table[f.mid], ReplyTo(f.of)))
    BY <1>3 DEF Own, Telling, ReplyTo
  <1>6. Own(Telling(table[f.mid], Ended("corrupt")))
    BY DEF Own, Telling, Ended
  <1>7. Own([c \in {} |-> ReplyTo(f.of)])
    BY DEF Own
  <1>8. StepOf(table[f.mid], f.kind) \in Steps
    BY FrameFacts
  <1>9. Own(Telltale(f, table[f.mid]))
    BY <1>5, <1>6, <1>7, <1>8 DEF Telltale, Steps
  <1> QED
    BY <1>2, <1>3, <1>4, <1>9

\* route(): the id is given back only with the last answer on it.
LEMMA RoutedHonest ==
    ASSUME ~Rogue, Inv, Honest, NEW f \in Frames, Routed(f)
    PROVE  Honest'
  <1> DEFINE row == table[f.mid]
             step == StepOf(row, f.kind)
             told == Telltale(f, row)
  <1>1. /\ ~Unroutable(f) /\ Accept(f.mid, step) /\ Conclude(told, {})
        /\ owed' = OwedAfter(f) /\ UNCHANGED writing
    BY DEF Routed
  <1>2. /\ f.mid \in Mids /\ step \in Steps /\ Tells(told) /\ row \in Row
    BY <1>1, FrameFacts
  <1>3. /\ <<f.mid, f.of>> \in owed
        /\ row.owner = f.of /\ row.state # "Free"
        /\ writing # Idle /\ writing.begun => f.mid # writing.mid
        /\ Own(told)
        /\ step = "Completed" => Settles(f)
    BY <1>1, OwedFrame
  <1>4. table' = [table EXCEPT ![f.mid] = RowAfter(row, step)]
    BY <1>1 DEF Accept
  <1>5. step # "Completed" => /\ RowAfter(row, step).state # "Free"
                              /\ RowAfter(row, step).owner = row.owner
    BY <1>2, <1>3 DEF RowAfter, Steps, Touch, RetiredRow, Row
  <1> HIDE DEF told, step, row
  <1>6. OwnReplies'
    BY <1>1, <1>2, <1>3, ConcludeOwn DEF Inv, Honest
  <1>7. Held'
    <2>1. CASE step # "Completed"
      <3>1. \A m \in Mids : table[m].state # "Free"
              => table'[m].state # "Free" /\ table'[m].owner = table[m].owner
        BY <1>2, <1>4, <1>5, <2>1 DEF Inv, TableInv, TableTypeOK, row
      <3>2. owed' \subseteq owed
        BY <1>1 DEF OwedAfter
      <3> QED
        BY <1>1, <3>1, <3>2, HeldSame DEF Honest
    <2>2. CASE step = "Completed"
      <3>1. owed' = owed \ {<<f.mid, f.of>>}
        BY <1>1, <1>3, <2>2 DEF OwedAfter
      <3>2. owed \subseteq Mids \X Calls /\ writing.mid \in Mids
        BY DEF Inv, QueueTypeOK
      <3>3. \A e \in owed' : e \in owed /\ e[1] # f.mid
        BY <1>3, <3>1, <3>2 DEF Honest, Held, row
      <3>4. \A m \in Mids \ {f.mid} : table'[m] = table[m]
        BY <1>4 DEF Inv, TableInv, TableTypeOK
      <3> QED
        BY <1>1, <1>3, <3>2, <3>3, <3>4 DEF Honest, Held
    <2> QED
      BY <2>1, <2>2
  <1> QED
    BY <1>6, <1>7 DEF Honest

\* A late frame on a retired id takes nothing from anybody.
LEMMA DiscardedHonest ==
    ASSUME Inv, Honest, NEW f \in Frames, Discarded(f)
    PROVE  Honest'
  <1>1. UNCHANGED <<table, writing, callerVars>> /\ owed' = OwedAfter(f)
    BY DEF Discarded, tableVars
  <1>2. Held'
    BY <1>1, HeldSame DEF Honest, OwedAfter
  <1>3. OwnReplies'
    BY <1>1 DEF Honest, OwnReplies, callerVars
  <1> QED
    BY <1>2, <1>3 DEF Honest

\* The message that ends the connection is delivered like any other.
LEMMA RoutedLastHonest ==
    ASSUME ~Rogue, Inv, Honest, NEW f \in Frames, RoutedLast(f)
    PROVE  Honest'
  <1> DEFINE told == IF table[f.mid].state = "Retired"
                     THEN [c \in {} |-> ReplyTo(f.of)]
                     ELSE Telltale(f, table[f.mid])
  <1>1. ~Unroutable(f) /\ Fail(told)
    BY DEF RoutedLast
  <1>2. Tells(told)
    BY <1>1, FrameFacts
  <1>3. Own(Telltale(f, table[f.mid])) /\ Own([c \in {} |-> ReplyTo(f.of)])
    BY <1>1, OwedFrame DEF Own
  <1>4. Own(told)
    BY <1>3
  <1> HIDE DEF told
  <1> QED
    BY <1>1, <1>2, <1>4, FailHonest

\* A deadline that fires keeps the id, with the request it belonged to.
LEMMA TicksHonest == Inv /\ Honest /\ Ticks => Honest'
  <1> SUFFICES ASSUME Inv, Honest, Ticks PROVE Honest'
    OBVIOUS
  <1>1. Expire /\ Conclude(TimedOut, {}) /\ UNCHANGED <<writing, owed>>
    BY DEF Ticks
  <1>2. Tells(TimedOut) /\ Own(TimedOut)
    BY OutcomeTypes DEF Tells, Own, TimedOut, Ended
  <1>3. OwnReplies'
    BY <1>1, <1>2, ConcludeOwn DEF Inv, Honest
  <1>4. \A m \in Mids : table[m].state # "Free"
          => table'[m].state # "Free" /\ table'[m].owner = table[m].owner
    BY <1>1 DEF Expire, LapsedRow, RetiredRow, Inv, TableInv, TableTypeOK, Row
  <1>5. Held'
    BY <1>1, <1>4, HeldSame DEF Honest
  <1> QED
    BY <1>3, <1>5 DEF Honest

\* The tick that spends the retirement budget tells timeouts and nothing else.
LEMMA TicksLastHonest == Inv /\ Honest /\ TicksLast => Honest'
  <1> SUFFICES ASSUME Inv, Honest, TicksLast PROVE Honest'
    OBVIOUS
  <1> DEFINE told(reached) ==
               [c \in {table[m].owner : m \in reached} |-> Ended("timeout")]
  <1>1. PICK reached \in SUBSET Lapsing : Fail(told(reached))
    BY DEF TicksLast
  <1>2. Tells(told(reached)) /\ Own(told(reached))
    BY OutcomeTypes DEF Tells, Own, Ended
  <1> HIDE DEF told
  <1> QED
    BY <1>1, <1>2, FailHonest

\* Nobody holds anything in the first state.
LEMMA InitHonest == Init => Honest
  BY DEF Init, Honest, Held, OwnReplies, Idle, Ended

\* Every action keeps identity, against a server that is not rogue.
LEMMA NextHonest ==
    ASSUME ~Rogue, Inv, Honest, [Next]_vars
    PROVE  Honest'
  <1>1. CASE Callers
    BY <1>1, CallersHonest
  <1>2. CASE Arm \/ ClosesEnd \/ RequestsEnd \/ InboundNothing
    BY <1>2, QuietHonest
    DEF Arm, ClosesEnd, RequestsEnd, InboundNothing, tableVars
  <1>3. CASE Finish \/ WriteFails \/ UnroutableArrives \/ InboundFails
             \/ GoesSilent
    BY <1>3, FailNowHonest
    DEF Finish, WriteFails, UnroutableArrives, InboundFails, GoesSilent
  <1>4. CASE CloseTaken \/ RequestTaken
    BY <1>4, TakenHonest
  <1>5. CASE Wrote(FALSE) \/ Wrote(TRUE)
    BY <1>5, WroteHonest
  <1>6. ASSUME NEW f \in Frames, Routed(f) \/ Discarded(f) \/ RoutedLast(f)
        PROVE  Honest'
    BY <1>6, RoutedHonest, DiscardedHonest, RoutedLastHonest
  <1>7. CASE Ticks \/ TicksLast
    BY <1>7, TicksHonest, TicksLastHonest
  <1>8. CASE TimePasses
    BY <1>8, TimePassesHonest
  <1>9. CASE Terminated \/ UNCHANGED vars
    BY <1>9, QuietHonest DEF Terminated, vars, actorVars, tableVars
  <1> QED
    BY <1>1, <1>2, <1>3, <1>4, <1>5, <1>6, <1>7, <1>8, <1>9
    DEF Next, Written, Inbound, Timer

-----------------------------------------------------------------------------
(* Hooks.  A request is in one place at a time, from the channel through the *)
(* write slot to its row, and leaves the last of them as it is told.         *)

OnePlace ==
    /\ \A i, j \in 1 .. Len(requests) : requests[i] = requests[j] => i = j
    /\ \A m, k \in OnWire :
         table[m].owner \in Requests /\ table[m].owner = table[k].owner => m = k
    /\ \A r \in Requests : /\ Queued(r) => ~InSlot(r) /\ ~OnTable(r)
                           /\ InSlot(r) => ~OnTable(r)

\* While somebody may still tell the request, nobody has; and what the caller was
\* told, its hook was, unless the request never reached the wire's end.
Agreed(r) ==
    /\ Pending(r) => caller[r] \in {"waiting", "gone"} /\ hooks[r] = <<>>
    /\ hooks[r] # <<>> => caller[r] \in {"gone", "ended"}
    /\ caller[r] # "ended" => result[r].kind = "none"
    /\ Len(hooks[r]) <= 1
    /\ r \in Hooked /\ caller[r] = "ended" =>
         \/ hooks[r] = <<result[r]>>
         \/ hooks[r] = <<>> /\ result[r].kind \in {"lost", "unsent"}

HookInv == OnePlace /\ \A r \in Requests : Agreed(r)

\* Telling pending requests, which are pending no longer, keeps callers and hooks
\* in agreement.
LEMMA ConcludeAgreed ==
    ASSUME CallerTypeOK, NEW told, NEW cut, Tells(told), Conclude(told, cut),
           NEW r \in Requests, Agreed(r),
           r \in DOMAIN told => Pending(r),
           Pending(r)' => Pending(r) /\ r \notin DOMAIN told \cup cut
    PROVE  Agreed(r)'
  <1>1. /\ caller'[r] = IF caller[r] = "waiting" /\ r \in DOMAIN told \cup cut
                        THEN "ended" ELSE caller[r]
        /\ result'[r] = IF caller[r] # "waiting" THEN result[r]
                        ELSE IF r \in DOMAIN told THEN told[r]
                        ELSE IF r \in cut THEN Ended("lost") ELSE result[r]
        /\ hooks'[r] = IF r \in DOMAIN told /\ r \in Hooked
                       THEN Append(hooks[r], told[r]) ELSE hooks[r]
    BY DEF Conclude
  <1>2. hooks[r] \in Seq(Outcome)
    BY DEF CallerTypeOK
  <1>3. CASE r \in DOMAIN told
    <2>1. caller[r] \in {"waiting", "gone"} /\ hooks[r] = <<>> /\ ~Pending(r)'
      BY <1>3 DEF Agreed
    <2>2. Append(hooks[r], told[r]) = <<told[r]>>
      BY <2>1
    <2>3. hooks'[r] = <<told[r]>> \/ (hooks'[r] = <<>> /\ r \notin Hooked)
      BY <1>1, <1>3, <2>1, <2>2
    <2>4. \/ caller[r] = "waiting" /\ caller'[r] = "ended" /\ result'[r] = told[r]
          \/ caller[r] = "gone" /\ caller'[r] = "gone" /\ result'[r] = result[r]
      BY <1>1, <1>3, <2>1
    <2>5. Len(hooks'[r]) <= 1
      <3>1. Len(<<told[r]>>) = 1 /\ Len(<<>>) = 0
        OBVIOUS
      <3>2. CASE hooks'[r] = <<told[r]>>
        <4>1. Len(hooks'[r]) = 1
          BY <3>1, <3>2
        <4> QED
          BY <4>1
      <3>3. CASE hooks'[r] = <<>>
        BY <3>1, <3>3
      <3> QED
        BY <2>3, <3>2, <3>3
    <2>6. caller'[r] # "ended" => result'[r].kind = "none"
      BY <2>4 DEF Agreed
    <2> HIDE <1>1
    <2> QED
      BY <2>1, <2>3, <2>4, <2>5, <2>6 DEF Agreed
  <1>4. CASE r \notin DOMAIN told /\ r \in cut /\ caller[r] = "waiting"
    <2>1. hooks'[r] = <<>> /\ ~Pending(r)'
      BY <1>1, <1>4 DEF Agreed
    <2>2. caller'[r] = "ended" /\ result'[r].kind = "lost"
      BY <1>1, <1>4 DEF Ended
    <2> QED
      BY <2>1, <2>2 DEF Agreed
  <1>5. CASE r \notin DOMAIN told /\ ~(r \in cut /\ caller[r] = "waiting")
    <2>1. /\ hooks'[r] = hooks[r] /\ caller'[r] = caller[r]
          /\ result'[r] = result[r]
      BY <1>1, <1>5
    <2> QED
      BY <2>1 DEF Agreed
  <1> QED
    BY <1>3, <1>4, <1>5

\* The end of the connection leaves nothing pending, and tells only what was.
LEMMA FailHooks ==
    ASSUME Inv, HookInv, NEW told, Tells(told), Fail(told),
           \A r \in Requests : r \in DOMAIN told => Pending(r)
    PROVE  HookInv'
  <1> DEFINE live == {table[m].owner : m \in OnWire}
             all == [c \in DOMAIN told \cup live |->
                       IF c \in DOMAIN told THEN told[c] ELSE Ended("lost")]
  <1>1. Conclude(all, Requests) /\ writing' = Idle /\ requests' = <<>>
    BY DEF Fail
  <1>2. Tells(all)
    BY OutcomeTypes DEF Tells
  <1>3. \A r \in Requests : r \in DOMAIN all => Pending(r)
    BY DEF Pending, OnTable
  <1> HIDE DEF all
  <1>4. OnWire' = {}
    BY DEF Fail, FailAll, OnWire, Charges, FreeRow
  <1>5. \A r \in Requests : ~Pending(r)'
    BY <1>1, <1>4 DEF Pending, Queued, InSlot, OnTable
  <1>6. \A r \in Requests : Agreed(r)'
    BY <1>1, <1>2, <1>3, <1>5, ConcludeAgreed DEF Inv, HookInv
  <1>7. OnePlace'
    BY <1>1, <1>4 DEF OnePlace, Queued, InSlot, OnTable
  <1> QED
    BY <1>6, <1>7 DEF HookInv

\* A failure met with the table as it stands tells the requests on the wire.
LEMMA FailNowHooks == Inv /\ HookInv /\ FailNow => HookInv'
  <1> SUFFICES ASSUME Inv, HookInv, FailNow PROVE HookInv'
    OBVIOUS
  <1> DEFINE none == [c \in {} |-> Ended("lost")]
  <1>1. Fail(none) /\ Tells(none) /\ DOMAIN none = {}
    BY DEF FailNow, Tells
  <1> HIDE DEF none
  <1> QED
    BY <1>1, FailHooks

\* A step that puts no row on the wire and changes no owner there, and leaves
\* the channel and the write slot alone.
LEMMA RowsSettle ==
    ASSUME HookInv, UNCHANGED <<requests, writing>>,
           \A m \in Mids : table'[m].state = "OnWire"
             => table[m].state = "OnWire" /\ table'[m].owner = table[m].owner
    PROVE  /\ OnePlace'
           /\ \A r \in Requests : Pending(r)' => Pending(r)
  <1>1. OnWire' \subseteq OnWire
    BY DEF OnWire, Charges
  <1>2. \A m \in OnWire' : table'[m].owner = table[m].owner
    BY DEF OnWire, Charges
  <1>3. \A r \in Requests : /\ OnTable(r)' => OnTable(r)
                            /\ Queued(r)' <=> Queued(r)
                            /\ InSlot(r)' <=> InSlot(r)
    BY <1>1, <1>2 DEF OnTable, Queued, InSlot
  <1>4. OnePlace'
    <2>1. \A m, k \in OnWire' :
            table'[m].owner \in Requests /\ table'[m].owner = table'[k].owner
              => m = k
      BY <1>1, <1>2 DEF HookInv, OnePlace
    <2> QED
      BY <1>3, <2>1 DEF HookInv, OnePlace
  <1> QED
    BY <1>3, <1>4 DEF Pending

\* Such a step, the callers left alone too.
LEMMA QuietHooks ==
    ASSUME HookInv, UNCHANGED <<requests, writing, callerVars>>,
           \A m \in Mids : table'[m].state = "OnWire"
             => table[m].state = "OnWire" /\ table'[m].owner = table[m].owner
    PROVE  HookInv'
  <1>1. OnePlace' /\ \A r \in Requests : Pending(r)' => Pending(r)
    BY RowsSettle
  <1>2. UNCHANGED <<caller, result, hooks>>
    BY DEF callerVars
  <1>3. \A r \in Requests : Agreed(r)'
    BY <1>1, <1>2 DEF HookInv, Agreed
  <1> QED
    BY <1>1, <1>3 DEF HookInv

\* Such a step, with the owner of every row that left the wire told, and no other.
LEMMA RowsTold ==
    ASSUME Inv, HookInv, NEW told, Tells(told), Conclude(told, {}),
           UNCHANGED <<requests, writing>>,
           \A m \in Mids : table'[m].state = "OnWire"
             => table[m].state = "OnWire" /\ table'[m].owner = table[m].owner,
           \A c \in DOMAIN told : \E m \in OnWire : /\ table[m].owner = c
                                                   /\ table'[m].state # "OnWire"
    PROVE  HookInv'
  <1>1. OnePlace' /\ \A r \in Requests : Pending(r)' => Pending(r)
    BY RowsSettle
  <1>2. \A r \in Requests : r \in DOMAIN told => OnTable(r) /\ ~OnTable(r)'
    <2> SUFFICES ASSUME NEW r \in Requests, r \in DOMAIN told
                 PROVE  OnTable(r) /\ ~OnTable(r)'
      OBVIOUS
    <2>1. PICK m \in OnWire : table[m].owner = r /\ table'[m].state # "OnWire"
      OBVIOUS
    <2>2. ASSUME NEW k \in OnWire', table'[k].owner = r PROVE FALSE
      <3>1. k \in OnWire /\ table[k].owner = r /\ table'[k].state = "OnWire"
        BY <2>2 DEF OnWire, Charges
      <3>2. k = m
        BY <2>1, <3>1 DEF HookInv, OnePlace
      <3> QED
        BY <2>1, <3>1, <3>2
    <2> QED
      BY <2>1, <2>2 DEF OnTable
  <1>3. \A r \in Requests : r \in DOMAIN told => Pending(r) /\ ~Pending(r)'
    <2>1. \A r \in Requests : Queued(r)' <=> Queued(r)
      BY DEF Queued
    <2>2. \A r \in Requests : InSlot(r)' <=> InSlot(r)
      BY DEF InSlot
    <2> QED
      BY <1>2, <2>1, <2>2 DEF Pending, HookInv, OnePlace
  <1>4. \A r \in Requests : Agreed(r)'
    BY <1>1, <1>3, ConcludeAgreed DEF Inv, HookInv
  <1> QED
    BY <1>1, <1>4 DEF HookInv

\* The first bytes of a request move it from the slot to its row.
LEMMA WroteHooks ==
    ASSUME Inv, HookInv, NEW done \in BOOLEAN, Wrote(done)
    PROVE  HookInv'
  <1>1. /\ writing # Idle /\ UNCHANGED <<requests, caller, result, hooks>>
        /\ writing' = IF done THEN Idle ELSE [writing EXCEPT !.begun = TRUE]
    BY DEF Wrote, channelVars, callerVars
  <1>2. writing.mid \in Mids /\ writing.call \in Calls
    BY <1>1 DEF Inv, Admission, QueueTypeOK
  <1>3. \A r \in Requests : ~InSlot(r)'
    BY <1>1 DEF InSlot, Idle, Inv, QueueTypeOK
  <1>4. \A r \in Requests : Queued(r)' <=> Queued(r)
    BY <1>1 DEF Queued
  <1>5. CASE writing.begun
    <2>1. table' = table
      BY <1>5 DEF Wrote, tableVars
    <2>2. OnWire' = OnWire
      BY <2>1 DEF OnWire
    <2>3. \A r \in Requests : OnTable(r)' <=> OnTable(r)
      BY <2>1, <2>2 DEF OnTable
    <2>4. \A r \in Requests : Pending(r)' => Pending(r)
      BY <1>3, <1>4, <2>3 DEF Pending
    <2>5. \A r \in Requests : Agreed(r)'
      BY <1>1, <2>4 DEF HookInv, Agreed
    <2>6. OnePlace'
      BY <1>1, <1>3, <1>4, <2>1, <2>2, <2>3 DEF HookInv, OnePlace
    <2> QED
      BY <2>5, <2>6 DEF HookInv
  <1>6. CASE ~writing.begun
    <2>1. table' = [table EXCEPT ![writing.mid] = OnWireRow(writing.call)]
      BY <1>6 DEF Wrote, Dispatch
    <2>2. /\ table'[writing.mid].state = "OnWire"
          /\ table'[writing.mid].owner = writing.call
          /\ \A m \in Mids \ {writing.mid} : table'[m] = table[m]
      BY <1>2, <2>1 DEF Inv, TableInv, TableTypeOK, OnWireRow
    <2>3. writing.mid \notin OnWire
      BY <1>1, <1>6 DEF Inv, Admission, OnWire, Charges
    <2>4. OnWire' = OnWire \cup {writing.mid}
      BY <1>2, <2>2 DEF OnWire, Charges
    <2>5. \A m \in OnWire : table'[m] = table[m]
      BY <2>2, <2>3 DEF OnWire
    <2>6. \A r \in Requests : OnTable(r)' <=> OnTable(r) \/ r = writing.call
      BY <2>2, <2>4, <2>5 DEF OnTable
    <2>7. \A r \in Requests : InSlot(r) <=> r = writing.call
      BY <1>1, <1>6 DEF InSlot
    <2>8. \A r \in Requests : Pending(r)' => Pending(r)
      BY <1>3, <1>4, <2>6, <2>7 DEF Pending
    <2>9. \A r \in Requests : Agreed(r)'
      BY <1>1, <2>8 DEF HookInv, Agreed
    <2>10. ASSUME NEW m \in OnWire, table[m].owner = writing.call,
                  writing.call \in Requests
           PROVE  FALSE
      BY <2>7, <2>10 DEF HookInv, OnePlace, OnTable
    <2>11. \A m, k \in OnWire' :
             table'[m].owner \in Requests /\ table'[m].owner = table'[k].owner
               => m = k
      BY <2>2, <2>4, <2>5, <2>10 DEF HookInv, OnePlace
    <2>12. OnePlace'
      BY <1>1, <1>3, <1>4, <2>6, <2>7, <2>11 DEF HookInv, OnePlace
    <2> QED
      BY <2>9, <2>12 DEF HookInv
  <1> QED
    BY <1>5, <1>6

\* Taking a request or a close from its channel.
LEMMA TakenHooks == Inv /\ HookInv /\ (CloseTaken \/ RequestTaken) => HookInv'
  <1> SUFFICES ASSUME Inv, HookInv, CloseTaken \/ RequestTaken PROVE HookInv'
    OBVIOUS
  <1>1. CASE FailNow
    BY <1>1, FailNowHooks
  <1>2. ASSUME NEW c, Begin(c),
               \/ c \in Closes /\ requests' = requests
               \/ requests # <<>> /\ c = Head(requests) /\ requests' = Tail(requests)
        PROVE  HookInv'
    <2>1. writing = Idle /\ requests \in Seq(Requests)
      BY DEF CloseTaken, RequestTaken, Inv, Admission, QueueTypeOK
    <2>2. table' = table /\ OnWire' = OnWire
      BY <1>2 DEF Begin, NotSent, NotEncoded, Begun, tableVars, OnWire
    <2>3. \A r \in Requests : OnTable(r)' <=> OnTable(r)
      BY <2>2 DEF OnTable
    <2>4. c \in Requests => Queued(c)
      BY <1>2, <2>1, ConnectionAssumption DEF Queued
    <2>5. \A i, j \in 1 .. Len(requests') : requests'[i] = requests'[j] => i = j
      BY SMTT(40), <1>2, <2>1 DEF HookInv, OnePlace
    <2>6. \A r \in Requests : Queued(r)' => Queued(r) /\ r # c
      <3>1. CASE c \in Closes /\ requests' = requests
        BY <3>1, ConnectionAssumption DEF Queued
      <3>2. CASE requests # <<>> /\ c = Head(requests) /\ requests' = Tail(requests)
        <4> SUFFICES ASSUME NEW r \in Requests, NEW i \in 1 .. Len(requests'),
                            requests'[i] = r
                     PROVE  Queued(r) /\ r # c
          BY DEF Queued
        <4>1. /\ i + 1 \in 1 .. Len(requests) /\ requests[i + 1] = r
              /\ 1 \in 1 .. Len(requests) /\ requests[1] = c /\ i + 1 # 1
          BY <2>1, <3>2
        <4> QED
          BY <4>1 DEF Queued, HookInv, OnePlace
      <3> QED
        BY <1>2, <3>1, <3>2
    <2>7. c \in Requests \cup Closes
      BY <1>2, <2>1
    <2>8. \A r \in Requests : ~InSlot(r)
      BY <2>1 DEF InSlot
    <2>9. CASE Begun(c)
      <3>1. UNCHANGED <<caller, result, hooks>>
        BY <2>9 DEF Begun, callerVars
      <3>2. \A r \in Requests : InSlot(r)' => r = c
        BY <2>9 DEF Begun, InSlot
      <3>3. \A r \in Requests : Pending(r)' => Pending(r)
        BY <2>3, <2>4, <2>6, <3>2 DEF Pending
      <3>4. \A r \in Requests : Agreed(r)'
        BY <3>1, <3>3 DEF HookInv, Agreed
      <3>5. OnePlace'
        BY <2>2, <2>3, <2>4, <2>5, <2>6, <3>2 DEF HookInv, OnePlace
      <3> QED
        BY <3>4, <3>5 DEF HookInv
    <2>10. ASSUME NEW told, Tells(told), DOMAIN told = {c}, Conclude(told, {}),
                  writing' = writing
           PROVE  HookInv'
      <3>1. \A r \in Requests : ~InSlot(r)'
        BY <2>1, <2>10 DEF InSlot
      <3>2. \A r \in Requests : Pending(r)' => Pending(r) /\ r # c
        BY <2>3, <2>4, <2>6, <3>1 DEF Pending, HookInv, OnePlace
      <3>3. \A r \in Requests : r \in DOMAIN told => Pending(r)
        BY <2>4, <2>10 DEF Pending
      <3>4. \A r \in Requests : Agreed(r)'
        BY <2>10, <3>2, <3>3, ConcludeAgreed DEF HookInv, Inv
      <3>5. OnePlace'
        BY <2>2, <2>3, <2>5, <2>6, <3>1 DEF HookInv, OnePlace
      <3> QED
        BY <3>4, <3>5 DEF HookInv
    <2>11. CASE NotSent(c)
      <3> DEFINE told == [r \in {c} |-> Ended("lost")]
      <3>1. Tells(told) /\ DOMAIN told = {c}
        BY OutcomeTypes DEF Tells
      <3>2. Conclude(told, {}) /\ writing' = writing
        BY <2>11 DEF NotSent
      <3> HIDE DEF told
      <3> QED
        BY <2>10, <3>1, <3>2
    <2>12. CASE NotEncoded(c)
      <3> DEFINE told == [r \in {c} |-> Ended("refused")]
      <3>1. Tells(told) /\ DOMAIN told = {c}
        BY OutcomeTypes DEF Tells
      <3>2. Conclude(told, {}) /\ writing' = writing
        BY <2>12 DEF NotEncoded
      <3> HIDE DEF told
      <3> QED
        BY <2>10, <3>1, <3>2
    <2> QED
      BY <1>2, <2>9, <2>11, <2>12 DEF Begin
  <1>3. closes # <<>> => Head(closes) \in Closes
    BY DEF Inv, QueueTypeOK
  <1>4. CASE CloseTaken
    BY <1>1, <1>2, <1>3, <1>4 DEF CloseTaken
  <1>5. CASE RequestTaken
    BY <1>1, <1>2, <1>5 DEF RequestTaken
  <1> QED
    BY <1>4, <1>5

\* A caller enters the channel once, and leaves whenever it likes.
LEMMA CallersHooks == Inv /\ HookInv /\ Callers => HookInv'
  <1> SUFFICES ASSUME Inv, HookInv, Callers PROVE HookInv'
    OBVIOUS
  <1>1. /\ caller \in [Requests -> {"idle", "sending", "waiting", "gone", "ended"}]
        /\ result \in [Requests -> Outcome] /\ requests \in Seq(Requests)
    BY DEF Inv, CallerTypeOK, QueueTypeOK
  <1>2. UNCHANGED <<table, writing, hooks>> /\ OnWire' = OnWire
    BY DEF Callers, Call, Send, SendFails, Leave, EnqueueClose, DropHandles,
           tableVars, actorVars, callerVars, OnWire
  <1>3. \A r \in Requests : /\ OnTable(r)' <=> OnTable(r)
                            /\ InSlot(r)' <=> InSlot(r)
    BY <1>2 DEF OnTable, InSlot
  <1>4. CASE requests' = requests
    <2>1. \A r \in Requests : Queued(r)' <=> Queued(r)
      BY <1>4 DEF Queued
    <2>2. \A r \in Requests : Pending(r)' <=> Pending(r)
      BY <1>3, <2>1 DEF Pending
    <2>3. OnePlace'
      BY <1>2, <1>3, <1>4, <2>1 DEF HookInv, OnePlace
    <2>4. ASSUME NEW r \in Requests PROVE Agreed(r)'
      <3>1. \/ caller'[r] = caller[r] /\ result'[r] = result[r]
            \/ /\ caller[r] = "idle" /\ caller'[r] = "sending"
               /\ result'[r] = result[r]
            \/ /\ caller[r] \in {"sending", "waiting"} /\ caller'[r] = "gone"
               /\ result'[r] = result[r]
            \/ /\ caller[r] = "sending" /\ caller'[r] = "ended"
               /\ result'[r].kind = "unsent"
        BY <1>1, <1>4 DEF Callers, Call, Send, SendFails, Leave, EnqueueClose,
                DropHandles, Ended, callerVars
      <3> QED
        BY <1>2, <2>2, <3>1 DEF HookInv, Agreed
    <2> QED
      BY <2>3, <2>4 DEF HookInv
  <1>5. ASSUME NEW s \in Requests, Send(s) PROVE HookInv'
    <2>1. /\ requests' = Append(requests, s) /\ caller[s] = "sending"
          /\ caller' = [caller EXCEPT ![s] = "waiting"] /\ result' = result
      BY <1>5 DEF Send
    <2>2. \A r \in Requests : Queued(r)' <=> Queued(r) \/ r = s
      BY <1>1, <2>1 DEF Queued
    <2>3. ~Pending(s) /\ hooks[s] = <<>>
      BY <2>1 DEF HookInv, Agreed
    <2>4. \A r \in Requests \ {s} : Pending(r)' <=> Pending(r)
      BY <1>3, <2>2 DEF Pending
    <2>5. \A r \in Requests \ {s} : Agreed(r)'
      BY <1>1, <1>2, <2>1, <2>4 DEF HookInv, Agreed
    <2>6. Agreed(s)'
      BY <1>1, <1>2, <2>1, <2>3 DEF HookInv, Agreed
    <2>7. \A i, j \in 1 .. Len(requests') : requests'[i] = requests'[j] => i = j
      BY <1>1, <2>1, <2>3 DEF HookInv, OnePlace, Pending, Queued
    <2>8. OnePlace'
      BY <1>2, <1>3, <2>2, <2>3, <2>7 DEF HookInv, OnePlace, Pending
    <2> QED
      BY <2>5, <2>6, <2>8 DEF HookInv
  <1>6. requests' = requests \/ \E s \in Requests : Send(s)
    BY DEF Callers, Call, SendFails, Leave, EnqueueClose, DropHandles, channelVars
  <1> QED
    BY <1>4, <1>5, <1>6

\* What a message tells, it tells the owner of the row it reached, on the wire,
\* and only if the row leaves the wire with it.
LEMMA TelltaleOwner ==
    ASSUME Inv, NEW f \in Frames, ~Unroutable(f)
    PROVE  LET row == table[f.mid] IN
           \A c \in DOMAIN Telltale(f, row) :
             /\ row.state = "OnWire" /\ c = row.owner
             /\ StepOf(row, f.kind) # "Continuing"
  <1> DEFINE row == table[f.mid]
  <1>1. StepOf(row, f.kind) \in Steps
    BY FrameFacts
  <1>2. \A outcome : \A c \in DOMAIN Telling(row, outcome) :
          row.state = "OnWire" /\ c = row.owner
    BY DEF Telling, Charges
  <1> QED
    BY <1>1, <1>2 DEF Telltale, Steps

\* route(): a row leaves the wire with the message that tells its owner.
LEMMA RoutedHooks ==
    ASSUME Inv, HookInv, NEW f \in Frames, Routed(f)
    PROVE  HookInv'
  <1> DEFINE row == table[f.mid]
             step == StepOf(row, f.kind)
             told == Telltale(f, row)
  <1>1. /\ ~Unroutable(f) /\ Accept(f.mid, step) /\ Conclude(told, {})
        /\ UNCHANGED <<requests, writing>>
    BY DEF Routed, channelVars
  <1>2. f.mid \in Mids /\ step \in Steps /\ Tells(told) /\ row \in Row
    BY <1>1, FrameFacts
  <1>3. \A c \in DOMAIN told : /\ row.state = "OnWire" /\ c = row.owner
                               /\ step # "Continuing"
    BY <1>1, TelltaleOwner
  <1>4. table' = [table EXCEPT ![f.mid] = RowAfter(row, step)]
    BY <1>1 DEF Accept
  <1>5. /\ RowAfter(row, step).state = "OnWire"
             => row.state = "OnWire" /\ RowAfter(row, step).owner = row.owner
        /\ step # "Continuing" => RowAfter(row, step).state # "OnWire"
    BY <1>2 DEF RowAfter, Steps, Touch, RetiredRow, FreeRow, Row
  <1>6. /\ table'[f.mid] = RowAfter(row, step)
        /\ \A m \in Mids \ {f.mid} : table'[m] = table[m]
    BY <1>2, <1>4 DEF Inv, TableInv, TableTypeOK
  <1>7. \A m \in Mids : table'[m].state = "OnWire"
          => table[m].state = "OnWire" /\ table'[m].owner = table[m].owner
    BY <1>5, <1>6
  <1>8. \A c \in DOMAIN told : \E m \in OnWire : /\ table[m].owner = c
                                                 /\ table'[m].state # "OnWire"
    BY <1>2, <1>3, <1>5, <1>6 DEF OnWire, Charges
  <1> HIDE DEF told, step, row
  <1> QED
    BY <1>1, <1>2, <1>7, <1>8, RowsTold

\* The message that ends the connection is told first, to a request on the wire.
LEMMA RoutedLastHooks ==
    ASSUME Inv, HookInv, NEW f \in Frames, RoutedLast(f)
    PROVE  HookInv'
  <1> DEFINE told == IF table[f.mid].state = "Retired"
                     THEN [c \in {} |-> ReplyTo(f.of)]
                     ELSE Telltale(f, table[f.mid])
  <1>1. ~Unroutable(f) /\ Fail(told)
    BY DEF RoutedLast
  <1>2. Tells(told) /\ f.mid \in Mids
    BY <1>1, FrameFacts
  <1>3. \A c \in DOMAIN told : /\ table[f.mid].state = "OnWire"
                               /\ c = table[f.mid].owner
    BY <1>1, TelltaleOwner
  <1> HIDE DEF told
  <1>4. \A r \in Requests : r \in DOMAIN told => Pending(r)
    BY <1>2, <1>3 DEF Pending, OnTable, OnWire, Charges
  <1> QED
    BY <1>1, <1>2, <1>4, FailHooks

\* A deadline that fires takes the row off the wire as it tells the owner.
LEMMA TicksHooks == Inv /\ HookInv /\ Ticks => HookInv'
  <1> SUFFICES ASSUME Inv, HookInv, Ticks PROVE HookInv'
    OBVIOUS
  <1>1. Expire /\ Conclude(TimedOut, {}) /\ UNCHANGED <<requests, writing>>
    BY DEF Ticks, channelVars
  <1>2. Tells(TimedOut)
    BY OutcomeTypes DEF Tells, TimedOut
  <1>3. table \in [Mids -> Row] /\ Lapsing \subseteq OnWire
    BY DEF Inv, TableInv, TableTypeOK, Lapsing, Due, OnWire
  <1>4. \A m \in Mids : table'[m] = IF m \in Lapsing THEN LapsedRow(table[m])
                                    ELSE IF m \in GivenUp THEN RetiredRow(table[m])
                                    ELSE table[m]
    BY <1>1 DEF Expire
  <1>5. \A m \in Mids : /\ LapsedRow(table[m]).state = "Lapsed"
                        /\ RetiredRow(table[m]).state = "Retired"
    BY <1>3 DEF LapsedRow, RetiredRow, Row
  <1>6. \A m \in Mids : table'[m].state = "OnWire"
          => table[m].state = "OnWire" /\ table'[m].owner = table[m].owner
    BY <1>4, <1>5
  <1>7. \A m \in Lapsing : m \in OnWire /\ table'[m].state # "OnWire"
    BY <1>3, <1>4, <1>5 DEF OnWire
  <1>8. \A c \in DOMAIN TimedOut : \E m \in OnWire : /\ table[m].owner = c
                                                     /\ table'[m].state # "OnWire"
    BY <1>7 DEF TimedOut
  <1> QED
    BY <1>1, <1>2, <1>6, <1>8, RowsTold

\* The tick that spends the retirement budget tells requests on the wire.
LEMMA TicksLastHooks == Inv /\ HookInv /\ TicksLast => HookInv'
  <1> SUFFICES ASSUME Inv, HookInv, TicksLast PROVE HookInv'
    OBVIOUS
  <1> DEFINE told(reached) ==
               [c \in {table[m].owner : m \in reached} |-> Ended("timeout")]
  <1>1. PICK reached \in SUBSET Lapsing : Fail(told(reached))
    BY DEF TicksLast
  <1>2. Tells(told(reached))
    BY OutcomeTypes DEF Tells
  <1>3. \A r \in Requests : r \in DOMAIN told(reached) => Pending(r)
    BY DEF Pending, OnTable, OnWire, Lapsing, Due
  <1> HIDE DEF told
  <1> QED
    BY <1>1, <1>2, <1>3, FailHooks

\* The clock moves no row on or off the wire.
LEMMA TimePassesHooks == Inv /\ HookInv /\ TimePasses => HookInv'
  <1> SUFFICES ASSUME Inv, HookInv, TimePasses PROVE HookInv'
    OBVIOUS
  <1>1. Elapse /\ UNCHANGED <<requests, writing, callerVars>>
    BY DEF TimePasses, channelVars
  <1>2. \A m \in Mids : table'[m].state = "OnWire"
          => table[m].state = "OnWire" /\ table'[m].owner = table[m].owner
    BY <1>1 DEF Elapse, Inv, TableInv, TableTypeOK, Row
  <1> QED
    BY <1>1, <1>2, QuietHooks

\* In the first state no request has been made.
LEMMA InitHooks == Init => HookInv
  <1> SUFFICES ASSUME Init PROVE HookInv
    OBVIOUS
  <1>1. /\ requests = <<>> /\ writing = Idle
        /\ \A r \in Requests : /\ caller[r] = "idle" /\ hooks[r] = <<>>
                               /\ result[r].kind = "none"
    BY DEF Init, Ended
  <1>2. OnWire = {}
    BY DEF Init, TableInit, OnWire, Charges, FreeRow
  <1>3. \A r \in Requests : ~Queued(r) /\ ~InSlot(r) /\ ~OnTable(r)
    BY <1>1, <1>2 DEF Queued, InSlot, OnTable
  <1>4. \A r \in Requests : Agreed(r)
    BY <1>1, <1>3 DEF Agreed, Pending
  <1>5. OnePlace
    BY <1>1, <1>2, <1>3 DEF OnePlace
  <1> QED
    BY <1>4, <1>5 DEF HookInv

\* Every action keeps callers and hooks in agreement.
LEMMA NextHooks == Inv /\ HookInv /\ [Next]_vars => HookInv'
  <1> SUFFICES ASSUME Inv, HookInv, [Next]_vars PROVE HookInv'
    OBVIOUS
  <1>1. CASE Callers
    BY <1>1, CallersHooks
  <1>2. CASE \/ Finish \/ WriteFails \/ UnroutableArrives \/ InboundFails
             \/ GoesSilent
    BY <1>2, FailNowHooks
    DEF Finish, WriteFails, UnroutableArrives, InboundFails, GoesSilent
  <1>3. CASE CloseTaken \/ RequestTaken
    BY <1>3, TakenHooks
  <1>4. CASE Wrote(FALSE) \/ Wrote(TRUE)
    BY <1>4, WroteHooks
  <1>5. CASE \/ Arm \/ ClosesEnd \/ RequestsEnd \/ InboundNothing
             \/ Terminated \/ UNCHANGED vars \/ \E f \in Frames : Discarded(f)
    <2>1. UNCHANGED <<table, requests, writing, callerVars>>
      BY <1>5 DEF Arm, ClosesEnd, RequestsEnd, InboundNothing, Terminated,
                  Discarded, vars, tableVars, actorVars, channelVars
    <2> QED
      BY <2>1, QuietHooks
  <1>6. CASE \E f \in Frames : Routed(f) \/ RoutedLast(f)
    BY <1>6, RoutedHooks, RoutedLastHooks
  <1>7. CASE Ticks \/ TicksLast
    BY <1>7, TicksHooks, TicksLastHooks
  <1>8. CASE TimePasses
    BY <1>8, TimePassesHooks
  <1> QED
    BY <1>1, <1>2, <1>3, <1>4, <1>5, <1>6, <1>7, <1>8
    DEF Next, Written, Inbound, Timer

\* The step that ends a request applies its hook, unless it is the actor's end and
\* the request has no row.
Settled(r) ==
    Pending(r) /\ ~Pending(r)' => hooks'[r] # <<>> \/ (pc' = "ended" /\ ~OnTable(r))

\* Whoever is told has its hook applied.
LEMMA ConcludeApplies ==
    ASSUME Inv, NEW told, NEW cut, Conclude(told, cut), NEW r \in Hooked, r \in DOMAIN told
    PROVE  hooks'[r] # <<>>
  <1>1. r \in Requests /\ hooks[r] \in Seq(Outcome)
    BY ConnectionAssumption DEF Inv, CallerTypeOK
  <1>2. hooks'[r] = Append(hooks[r], told[r])
    BY <1>1 DEF Conclude
  <1>3. \A s \in Seq(Outcome) : \A e : Append(s, e) # <<>>
    OBVIOUS
  <1> QED
    BY <1>1, <1>2, <1>3

\* fail_all() tells every request that has a row.
LEMMA FailSettles ==
    ASSUME Inv, NEW told, Fail(told), NEW r \in Hooked
    PROVE  Settled(r)
  <1> DEFINE live == {table[m].owner : m \in OnWire}
             all == [c \in DOMAIN told \cup live |->
                       IF c \in DOMAIN told THEN told[c] ELSE Ended("lost")]
  <1>1. Conclude(all, Requests) /\ pc' = "ended"
    BY DEF Fail
  <1>2. OnTable(r) => r \in DOMAIN all
    BY DEF OnTable
  <1> HIDE DEF all
  <1>3. OnTable(r) => hooks'[r] # <<>>
    BY <1>1, <1>2, ConcludeApplies
  <1> QED
    BY <1>1, <1>3 DEF Settled

LEMMA FailNowSettles == ASSUME Inv, FailNow, NEW r \in Hooked PROVE Settled(r)
  BY FailSettles DEF FailNow

\* A step that tells the owner of every row it takes off the wire.
LEMMA RowsSettled ==
    ASSUME Inv, NEW told, Conclude(told, {}), UNCHANGED <<requests, writing>>,
           \A m \in OnWire : \/ table'[m].state = "OnWire" /\ table'[m].owner = table[m].owner
                             \/ table[m].owner \in DOMAIN told,
           NEW r \in Hooked
    PROVE  Settled(r)
  <1>1. (Queued(r)' <=> Queued(r)) /\ (InSlot(r)' <=> InSlot(r))
    BY DEF Queued, InSlot
  <1>2. OnTable(r) /\ r \notin DOMAIN told => OnTable(r)'
    BY DEF OnTable, OnWire, Charges
  <1>3. r \in DOMAIN told => hooks'[r] # <<>>
    BY ConcludeApplies
  <1> QED
    BY <1>1, <1>2, <1>3 DEF Settled, Pending

\* What is taken from the channel is in the write slot, or told why it is not.
LEMMA TakenSettles ==
    ASSUME Inv, HookInv, CloseTaken \/ RequestTaken, NEW r \in Hooked
    PROVE  Settled(r)
  <1>1. CASE FailNow
    BY <1>1, FailNowSettles
  <1>2. ASSUME NEW c, Begin(c),
               \/ requests' = requests
               \/ requests # <<>> /\ c = Head(requests) /\ requests' = Tail(requests)
        PROVE  Settled(r)
    <2>1. writing = Idle /\ requests \in Seq(Requests)
      BY DEF CloseTaken, RequestTaken, Inv, Admission, QueueTypeOK
    <2>2. OnTable(r) => OnTable(r)'
      BY <1>2 DEF Begin, NotSent, NotEncoded, Begun, tableVars, OnTable, OnWire
    <2>3. ~InSlot(r)
      BY <2>1 DEF InSlot
    <2>4. Queued(r) => Queued(r)' \/ r = c
      <3>1. CASE requests' = requests
        BY <3>1 DEF Queued
      <3>2. CASE requests # <<>> /\ c = Head(requests) /\ requests' = Tail(requests)
        <4> SUFFICES ASSUME NEW i \in 1 .. Len(requests), requests[i] = r, i # 1
                     PROVE  Queued(r)'
          BY <2>1, <3>2 DEF Queued
        <4>1. i - 1 \in 1 .. Len(requests') /\ requests'[i - 1] = r
          BY <2>1, <3>2
        <4> QED
          BY <4>1 DEF Queued
      <3> QED
        BY <1>2, <3>1, <3>2
    <2>5. ASSUME r = c, Queued(r)
          PROVE  InSlot(r)' \/ hooks'[r] # <<>>
      <3>1. CASE Begun(c)
        <4>1. \E m : writing' = [call |-> c, mid |-> m, begun |-> FALSE]
          BY <3>1 DEF Begun
        <4>2. c # Nobody
          BY <2>5, ConnectionAssumption, TableAssumption
        <4> QED
          BY <2>5, <4>1, <4>2 DEF InSlot, Idle
      <3>2. CASE NotSent(c)
        BY <2>5, <3>2, ConcludeApplies DEF NotSent
      <3>3. CASE NotEncoded(c)
        BY <2>5, <3>3, ConcludeApplies DEF NotEncoded
      <3> QED
        BY <1>2, <3>1, <3>2, <3>3 DEF Begin
    <2> QED
      BY <2>2, <2>3, <2>4, <2>5 DEF Settled, Pending
  <1>3. CASE CloseTaken
    BY <1>1, <1>2, <1>3 DEF CloseTaken
  <1>4. CASE RequestTaken
    BY <1>1, <1>2, <1>4 DEF RequestTaken
  <1> QED
    BY <1>3, <1>4

\* The first bytes of a request give it its row.
LEMMA WroteSettles ==
    ASSUME Inv, NEW done \in BOOLEAN, Wrote(done), NEW r \in Hooked
    PROVE  Settled(r)
  <1>1. writing # Idle /\ Queued(r)' = Queued(r)
    BY DEF Wrote, channelVars, Queued
  <1>2. writing.mid \in Mids
    BY <1>1 DEF Inv, Admission, QueueTypeOK
  <1>3. CASE writing.begun
    BY <1>1, <1>3 DEF Wrote, tableVars, OnTable, OnWire, InSlot, Settled, Pending
  <1>4. CASE ~writing.begun
    <2>1. table' = [table EXCEPT ![writing.mid] = OnWireRow(writing.call)]
      BY <1>4 DEF Wrote, Dispatch
    <2>2. /\ table'[writing.mid].state = "OnWire" /\ table'[writing.mid].owner = writing.call
          /\ \A m \in Mids \ {writing.mid} : table'[m] = table[m]
      BY <1>2, <2>1 DEF Inv, TableInv, TableTypeOK, OnWireRow
    <2>3. writing.mid \notin OnWire
      BY <1>1, <1>4 DEF Inv, Admission, OnWire, Charges
    <2>4. OnTable(r) \/ InSlot(r) => OnTable(r)'
      BY <1>2, <2>2, <2>3 DEF OnTable, OnWire, Charges, InSlot
    <2> QED
      BY <1>1, <2>4 DEF Settled, Pending
  <1> QED
    BY <1>3, <1>4

\* A message that takes a row off the wire tells its owner.
LEMMA RoutedSettles ==
    ASSUME Inv, NEW f \in Frames, Routed(f), NEW r \in Hooked
    PROVE  Settled(r)
  <1> DEFINE row == table[f.mid]
             step == StepOf(row, f.kind)
             told == Telltale(f, row)
  <1>1. /\ ~Unroutable(f) /\ Accept(f.mid, step) /\ Conclude(told, {})
        /\ UNCHANGED <<requests, writing>>
    BY DEF Routed, channelVars
  <1>2. f.mid \in Mids /\ step \in Steps /\ row \in Row
    BY <1>1, FrameFacts
  <1>3. table' = [table EXCEPT ![f.mid] = RowAfter(row, step)]
    BY <1>1 DEF Accept
  <1>4. /\ table'[f.mid] = RowAfter(row, step)
        /\ \A m \in Mids \ {f.mid} : table'[m] = table[m]
    BY <1>2, <1>3 DEF Inv, TableInv, TableTypeOK
  <1>5. CASE step = "Continuing"
    <2>1. row.state = "OnWire" => /\ RowAfter(row, step).state = "OnWire"
                                  /\ RowAfter(row, step).owner = row.owner
      BY <1>2, <1>5 DEF RowAfter, Touch, Row, Charges
    <2>2. \A m \in OnWire : table'[m].state = "OnWire" /\ table'[m].owner = table[m].owner
      BY <1>4, <2>1 DEF OnWire, Charges
    <2> HIDE DEF told, step, row
    <2> QED
      BY <1>1, <2>2, RowsSettled
  <1>6. CASE step # "Continuing"
    <2>1. row.state = "OnWire" => row.owner \in DOMAIN told
      BY <1>2, <1>6 DEF Telltale, Telling, Charges, Steps
    <2>2. \A m \in OnWire : \/ table'[m].state = "OnWire" /\ table'[m].owner = table[m].owner
                            \/ table[m].owner \in DOMAIN told
      BY <1>4, <2>1 DEF OnWire, Charges
    <2> HIDE DEF told, step, row
    <2> QED
      BY <1>1, <2>2, RowsSettled
  <1> QED
    BY <1>5, <1>6

\* A deadline that fires tells the owner of the row.
LEMMA TicksSettles ==
    ASSUME Inv, Ticks, NEW r \in Hooked
    PROVE  Settled(r)
  <1>1. Expire /\ Conclude(TimedOut, {}) /\ UNCHANGED <<requests, writing>>
    BY DEF Ticks, channelVars
  <1>2. \A m \in Mids : table'[m] = IF m \in Lapsing THEN LapsedRow(table[m])
                                    ELSE IF m \in GivenUp THEN RetiredRow(table[m])
                                    ELSE table[m]
    BY <1>1 DEF Expire
  <1>3. \A m \in OnWire : m \in Mids /\ m \notin GivenUp
    BY DEF OnWire, Charges, GivenUp, Lapsing
  <1>4. \A m \in OnWire : \/ table'[m].state = "OnWire" /\ table'[m].owner = table[m].owner
                          \/ table[m].owner \in DOMAIN TimedOut
    BY <1>2, <1>3 DEF TimedOut, OnWire, Charges
  <1> QED
    BY <1>1, <1>4, RowsSettled

\* Every action settles what it ends.
LEMMA NextSettles ==
    ASSUME Inv, HookInv, Next, NEW r \in Hooked
    PROVE  Settled(r)
  <1>1. r \in Requests
    BY ConnectionAssumption
  <1>2. CASE Callers
    <2>1. UNCHANGED <<table, writing>>
      BY <1>2 DEF Callers, Call, Send, SendFails, Leave, EnqueueClose, DropHandles,
                  tableVars, actorVars
    <2>2. \/ requests' = requests
          \/ \E s \in Requests : requests' = Append(requests, s)
      BY <1>2 DEF Callers, Call, Send, SendFails, Leave, EnqueueClose, DropHandles, channelVars
    <2>3. requests \in Seq(Requests)
      BY DEF Inv, QueueTypeOK
    <2>4. Queued(r) => Queued(r)'
      BY <2>2, <2>3 DEF Queued
    <2>5. (InSlot(r)' <=> InSlot(r)) /\ (OnTable(r)' <=> OnTable(r))
      BY <2>1 DEF InSlot, OnTable, OnWire
    <2> QED
      BY <2>4, <2>5 DEF Settled, Pending
  <1>3. CASE \/ Finish \/ WriteFails \/ UnroutableArrives \/ InboundFails
             \/ GoesSilent
    BY <1>3, FailNowSettles
    DEF Finish, WriteFails, UnroutableArrives, InboundFails, GoesSilent
  <1>4. CASE CloseTaken \/ RequestTaken
    BY <1>4, TakenSettles
  <1>5. CASE Wrote(FALSE) \/ Wrote(TRUE)
    BY <1>5, WroteSettles
  <1>6. CASE \/ Arm \/ ClosesEnd \/ RequestsEnd \/ InboundNothing
             \/ Terminated \/ \E f \in Frames : Discarded(f)
    <2>1. UNCHANGED <<table, requests, writing>>
      BY <1>6 DEF Arm, ClosesEnd, RequestsEnd, InboundNothing, Terminated,
                  Discarded, vars, tableVars, actorVars, channelVars
    <2>2. Pending(r)' <=> Pending(r)
      BY <2>1 DEF Pending, Queued, InSlot, OnTable, OnWire
    <2> QED
      BY <2>2 DEF Settled
  <1>7. CASE \E f \in Frames : Routed(f) \/ RoutedLast(f)
    BY <1>7, RoutedSettles, FailSettles DEF RoutedLast
  <1>8. CASE Ticks \/ TicksLast
    BY <1>8, TicksSettles, FailSettles DEF TicksLast
  <1>9. CASE TimePasses
    <2>1. Elapse /\ UNCHANGED <<requests, writing>>
      BY <1>9 DEF TimePasses, channelVars
    <2>2. \A m \in OnWire : table'[m].state = "OnWire" /\ table'[m].owner = table[m].owner
      BY <2>1 DEF Elapse, Inv, TableInv, TableTypeOK, Row, OnWire, Charges
    <2>3. OnTable(r) => OnTable(r)'
      BY <2>2 DEF OnTable, OnWire, Charges
    <2>4. (Queued(r)' <=> Queued(r)) /\ (InSlot(r)' <=> InSlot(r))
      BY <2>1 DEF Queued, InSlot
    <2> QED
      BY <2>3, <2>4 DEF Settled, Pending
  <1> QED
    BY <1>2, <1>3, <1>4, <1>5, <1>6, <1>7, <1>8, <1>9
    DEF Next, Written, Inbound, Timer

-----------------------------------------------------------------------------
(* The theorems. *)

\* The inductive invariant: the types, the table in order, and room below the
\* limit from the top of the loop to the first byte on the wire.
THEOREM Invariance == Spec => []Inv
  BY InitInv, NextInv, PTL DEF Spec

\* Every variable has its type in every reachable state, for any constants.
THEOREM TypeCorrect == Spec => []TypeOK
  <1>1. Inv => TypeOK
    BY DEF Inv, FlagTypeOK, QueueTypeOK, CallerTypeOK, TableInv, TypeOK
  <1> QED
    BY <1>1, Invariance, PTL

\* The panic of expire() ("the expiry index and the table agree") is out of
\* reach.
THEOREM IndexInOrder == Spec => []IndexAgrees
  <1>1. Inv => IndexAgrees
    BY DEF Inv, TableInv
  <1> QED
    BY <1>1, Invariance, PTL

\* The count admission reads is the count of rows on the wire.
THEOREM CountInOrder == Spec => []ChargingCounts
  <1>1. Inv => ChargingCounts
    BY DEF Inv, TableInv
  <1> QED
    BY <1>1, Invariance, PTL

\* The admission limit (invariant 3 of connection/mod.rs) is never passed,
\* whatever the server does.
THEOREM CapacityHeld == Spec => []Capacity
  <1>1. Inv => Capacity
    BY DEF Inv, TableInv, ChargingCounts, Admission, Capacity
  <1> QED
    BY <1>1, Invariance, PTL

\* The silence window of actor.rs runs exactly while a request charges.
THEOREM WindowRuns == Spec => []SilenceWindow
  <1>1. ASSUME Inv PROVE SilenceWindow
    <2>1. charging = Cardinality(OnWire) /\ IsFiniteSet(OnWire)
      BY <1>1, OnWireFinite DEF Inv, TableInv, ChargingCounts
    <2>2. Cardinality(OnWire) \in Nat /\ (Cardinality(OnWire) = 0 <=> OnWire = {})
      BY <2>1, FS_CardinalityType, FS_EmptySet
    <2>3. charging > 0 <=> OnWire # {}
      BY <2>1, <2>2
    <2> QED
      BY <1>1, <2>3 DEF Inv, Window, SilenceWindow
  <1> QED
    BY <1>1, Invariance, PTL

\* Identity is kept along every behaviour against an honest server.
LEMMA HonestAlways == ASSUME ~Rogue PROVE Spec => []Honest
  <1>1. Inv /\ Honest /\ [Next]_vars => Honest'
    BY NextHonest
  <1> QED
    BY <1>1, InitHonest, Invariance, PTL DEF Spec

\* An id the server may still answer on is held by the request it would be
\* answering, through the lapse of that request and past its retirement.
THEOREM IdentityHeld == Spec => []IdsHeld
  <1>1. CASE Rogue
    <2>1. IdsHeld
      BY <1>1 DEF IdsHeld
    <2> QED
      BY <2>1, PTL
  <1>2. CASE ~Rogue
    <2>1. Honest => IdsHeld
      BY DEF Honest, Held, IdsHeld
    <2> QED
      BY <1>2, <2>1, HonestAlways, PTL
  <1> QED
    BY <1>1, <1>2

\* A caller, or the hook that outlives it, is never given another's reply.
THEOREM CrosstalkFree == Spec => []NoCrosstalk
  <1>1. CASE Rogue
    <2>1. NoCrosstalk
      BY <1>1 DEF NoCrosstalk
    <2> QED
      BY <2>1, PTL
  <1>2. CASE ~Rogue
    <2>1. Honest => NoCrosstalk
      BY DEF Honest, OwnReplies, NoCrosstalk
    <2> QED
      BY <1>2, <2>1, HonestAlways, PTL
  <1> QED
    BY <1>1, <1>2

\* The hook of a request is applied exactly once and told what the caller is told,
\* whoever drops what and however the request ends, against any server; only a
\* request the actor's end finds without a row goes without.
THEOREM HooksInStep == Spec => HooksAgree
  <1> DEFINE Told(r) ==
               /\ Len(hooks'[r]) <= 1
               /\ Pending(r)' => hooks'[r] = <<>>
               /\ Pending(r) /\ ~Pending(r)' =>
                    hooks'[r] # <<>> \/ (pc' = "ended" /\ ~OnTable(r))
               /\ result'[r].kind \notin {"none", "lost", "unsent"} => hooks'[r] # <<>>
               /\ result'[r].kind # "none" /\ hooks'[r] # <<>> => hooks'[r][1] = result'[r]
  <1>1. ASSUME Inv, HookInv, Next, NEW r \in Hooked
        PROVE  Told(r)
    <2>1. r \in Requests /\ Agreed(r)'
      BY <1>1, NextHooks, ConnectionAssumption DEF HookInv
    <2>2. Settled(r)
      BY <1>1, NextSettles
    <2>3. CASE caller'[r] # "ended"
      BY <2>1, <2>2, <2>3 DEF Agreed, Settled
    <2>4. CASE caller'[r] = "ended"
      BY <1>1, <2>1, <2>2, <2>4 DEF Agreed, Settled
    <2> QED
      BY <2>3, <2>4
  <1> DEFINE All == \A r \in Hooked : Told(r)
  <1>2. Inv /\ HookInv /\ [Next]_vars => [All]_vars
    BY <1>1
  <1>3. HooksAgree <=> [][All]_vars
    BY DEF HooksAgree
  <1> HIDE DEF All
  <1>4. Inv /\ HookInv /\ [Next]_vars => HookInv'
    BY NextHooks
  <1>5. Spec => [](Inv /\ HookInv)
    BY <1>4, InitHooks, Invariance, PTL DEF Spec
  <1>6. Spec => [][All]_vars
    BY <1>2, <1>5, PTL DEF Spec
  <1> QED
    BY <1>3, <1>6
=============================================================================
