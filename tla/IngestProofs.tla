---------------------------- MODULE IngestProofs ----------------------------
(***************************************************************************)
(* Type correctness and the safety of Ingest, proved for any number of     *)
(* handlers and bodies, any parser verdict, any well-formed legacy         *)
(* database, and any number of failures and restarts.                      *)
(***************************************************************************)
EXTENDS Ingest, FiniteSetTheorems, TLAPS

(* Appending to a sequence keeps the elements it had. *)
LEMMA AppendKeeps ==
  ASSUME NEW S, NEW s \in Seq(S), NEW e \in S
  PROVE  /\ Append(s, e) \in Seq(S)
         /\ Len(Append(s, e)) = Len(s) + 1
         /\ DOMAIN s = 1..Len(s)
         /\ DOMAIN Append(s, e) = 1..(Len(s) + 1)
         /\ \A i \in DOMAIN s : Append(s, e)[i] = s[i]
         /\ Append(s, e)[Len(s) + 1] = e
         /\ Len(s) \in Nat
  OBVIOUS

(* The fingerprint of a text is a body, so never the empty fingerprint. *)
LEMMA FingerprintIsBody ==
  \A t \in Texts : SMSFingerprint(t) \in Bodies /\ SMSFingerprint(t) # NoPrint
  BY IngestAssumption DEF Texts, SMSFingerprint

(* Marking a row changes the status of that row and nothing else. *)
LEMMA MarkKeeps ==
  ASSUME NEW s \in Seq(RawRow), NEW i \in DOMAIN s, NEW m,
         m = [s EXCEPT ![i].status = "ok"]
  PROVE  /\ m \in Seq(RawRow)
         /\ Len(m) = Len(s)
         /\ DOMAIN m = DOMAIN s
         /\ m[i].status = "ok"
         /\ \A j \in DOMAIN s : /\ m[j].text = s[j].text
                                /\ m[j].print = s[j].print
                                /\ j # i => m[j] = s[j]
  <1>1. s[i] \in RawRow
    OBVIOUS
  <1>2. [s[i] EXCEPT !.status = "ok"] \in RawRow
    BY <1>1 DEF RawRow, ParseStatus
  <1>3. m = [s EXCEPT ![i] = [s[i] EXCEPT !.status = "ok"]]
    OBVIOUS
  <1>4. m \in Seq(RawRow) /\ Len(m) = Len(s) /\ DOMAIN m = DOMAIN s
    BY <1>2, <1>3
  <1>5. m[i] = [s[i] EXCEPT !.status = "ok"]
    BY <1>3
  <1>6. /\ m[i].status = "ok" /\ m[i].text = s[i].text /\ m[i].print = s[i].print
    BY <1>1, <1>5 DEF RawRow
  <1>7. \A j \in DOMAIN s : j # i => m[j] = s[j]
    BY <1>3
  <1> QED
    BY <1>4, <1>6, <1>7

(* A transaction found for row i is a transaction of row i. *)
LEMMA TxnIdOfRow ==
  ASSUME txns \in Seq(TxnRow), NEW i
  PROVE  /\ TxnIdOf(i) \in Nat
         /\ TxnIdOf(i) # 0 => TxnIdOf(i) \in DOMAIN txns /\ txns[TxnIdOf(i)].raw = i
  <1>1. CASE TxnsOf(i) = {}
    BY <1>1 DEF TxnIdOf
  <1>2. CASE TxnsOf(i) # {}
    <2>1. TxnIdOf(i) \in TxnsOf(i)
      BY <1>2 DEF TxnIdOf
    <2> QED
      BY <2>1 DEF TxnsOf
  <1> QED
    BY <1>1, <1>2

(* The row a committed transaction of handler r appends. *)
NewRow(r) == [text |-> text[r], print |-> SMSFingerprint(text[r]), status |-> status[r]]

(* What Commit appends is a well-typed row, with a fingerprint no row has. *)
LEMMA CommitAppends ==
  ASSUME IInv, NEW r \in Requests, Commit(r)
  PROVE  /\ NewRow(r) \in RawRow
         /\ raw' = Append(raw, NewRow(r))
         /\ text[r] \in Texts
         /\ status[r] = Verdict[text[r]]
         /\ status[r] \in {"ok", "failed", "ignored"}
         /\ \A i \in DOMAIN raw : raw[i].print # SMSFingerprint(text[r])
         /\ \/ status[r] = "ok" /\ txns' = Append(txns, [raw |-> Len(raw) + 1])
            \/ status[r] # "ok" /\ txns' = txns
         /\ [raw |-> Len(raw) + 1] \in TxnRow
  <1>1. pc[r] = "commit"
    BY DEF Commit
  <1>2. text[r] \in Texts /\ status[r] = Verdict[text[r]]
    BY <1>1 DEF IInv, MemoryInv
  <1>3. status[r] \in {"ok", "failed", "ignored"}
    BY <1>2, IngestAssumption
  <1>4. NewRow(r) \in RawRow
    BY <1>2, <1>3, FingerprintIsBody DEF NewRow, RawRow, ParseStatus
  <1>5. staged = IF status[r] = "ok" THEN {"raw", "txn"} ELSE {"raw"}
    BY <1>1 DEF IInv, TransactionInv
  <1>6. \A i \in DOMAIN raw : raw[i].print # SMSFingerprint(text[r])
    BY <1>1 DEF IInv, TransactionInv, RowsWithPrint
  <1>7. Len(raw) \in Nat
    BY DEF IInv, TypeOK
  <1> QED
    BY <1>2, <1>3, <1>4, <1>5, <1>6, <1>7 DEF Commit, NewRow, TxnRow

(* The four things a step can do to the committed rows. *)
LEMMA DatabaseStep ==
  ASSUME IInv, [Next]_vars
  PROVE  \/ UNCHANGED dbVars
         \/ \E r \in Requests : Commit(r)
         \/ \E r \in Requests : RecoverInsert(r)
         \/ \E r \in Requests : RecoverMark(r)
  BY DEF Next, vars, dbVars, Submit, SubmitBlank, Handler, Persist, BeginTx, InsertRaw,
         FindDuplicate, ReadTxn, CommitDuplicate, InsertTxn, Recover, StartRecovery,
         RecoverRefused, RecoverRules, RecoverGet, ApplyRules, GetTransaction, Respond,
         Depart, Fault, PersistFails, IgnoredFailure, RecoveryFails, Restart

(* Committed history only grows: the step lemma behind HistoryKept. *)
Grows ==
  /\ \A i \in DOMAIN raw :
       /\ i \in DOMAIN raw'
       /\ raw'[i].text = raw[i].text /\ raw'[i].print = raw[i].print
       /\ raw'[i].status # raw[i].status => raw[i].status = "pending" /\ raw'[i].status = "ok"
  /\ \A k \in DOMAIN txns : k \in DOMAIN txns' /\ txns'[k] = txns[k]

LEMMA HistoryStep ==
  ASSUME IInv, [Next]_vars
  PROVE  Grows
  <1> USE DEF Grows
  <1>0. raw \in Seq(RawRow) /\ txns \in Seq(TxnRow)
    BY DEF IInv, TypeOK
  <1>1. CASE UNCHANGED dbVars
    BY <1>1 DEF dbVars
  <1>2. ASSUME NEW r \in Requests, Commit(r) PROVE Grows
    <2>1. NewRow(r) \in RawRow /\ raw' = Append(raw, NewRow(r))
      BY <1>2, CommitAppends
    <2>2. \A i \in DOMAIN raw : i \in DOMAIN raw' /\ raw'[i] = raw[i]
      BY <1>0, <2>1, AppendKeeps
    <2>3. [raw |-> Len(raw) + 1] \in TxnRow
      BY <1>2, CommitAppends
    <2>4. txns' = txns \/ txns' = Append(txns, [raw |-> Len(raw) + 1])
      BY <1>2, CommitAppends
    <2>5. \A k \in DOMAIN txns : k \in DOMAIN txns' /\ txns'[k] = txns[k]
      BY <1>0, <2>3, <2>4, AppendKeeps
    <2> QED
      BY <2>2, <2>5
  <1>3. ASSUME NEW r \in Requests, RecoverInsert(r) PROVE Grows
    <2>1. [raw |-> row[r]] \in TxnRow
      BY <1>3 DEF RecoverInsert, Statement, Step, IInv, MemoryInv, TypeOK, TxnRow
    <2>2. txns' = Append(txns, [raw |-> row[r]]) /\ raw' = raw
      BY <1>3 DEF RecoverInsert
    <2>3. \A k \in DOMAIN txns : k \in DOMAIN txns' /\ txns'[k] = txns[k]
      BY <1>0, <2>1, <2>2, AppendKeeps
    <2> QED
      BY <2>2, <2>3
  <1>4. ASSUME NEW r \in Requests, RecoverMark(r) PROVE Grows
    <2>1. /\ row[r] \in DOMAIN raw
          /\ raw[row[r]].status \in {"pending", "ok"}
      BY <1>4 DEF RecoverMark, Statement, Step, IInv, MemoryInv
    <2>2. raw' = [raw EXCEPT ![row[r]].status = "ok"] /\ txns' = txns
      BY <1>4 DEF RecoverMark
    <2>3. /\ DOMAIN raw' = DOMAIN raw
          /\ raw'[row[r]].status = "ok"
          /\ \A j \in DOMAIN raw : /\ raw'[j].text = raw[j].text
                                   /\ raw'[j].print = raw[j].print
                                   /\ j # row[r] => raw'[j] = raw[j]
      BY <1>0, <2>1, <2>2, MarkKeeps
    <2> QED
      BY <2>1, <2>2, <2>3
  <1> QED
    BY <1>1, <1>2, <1>3, <1>4, DatabaseStep

----------------------------------------------------------------------------
(* Type correctness *)

LEMMA TypeInit == Init => TypeOK
  <1> SUFFICES ASSUME Init PROVE TypeOK
    OBVIOUS
  <1>1. NoReply \in Response
    BY DEF NoReply, Response
  <1>2. raw \in Seq(RawRow) /\ txns \in Seq(TxnRow)
    BY IngestAssumption DEF Init, LegacyWellFormed
  <1> QED
    BY <1>1, <1>2 DEF Init, TypeOK, Steps, ParseStatus

(* The committed rows keep their type. *)
LEMMA RowTypeStep ==
  ASSUME IInv, [Next]_vars
  PROVE  raw' \in Seq(RawRow) /\ txns' \in Seq(TxnRow)
  <1>0. raw \in Seq(RawRow) /\ txns \in Seq(TxnRow)
    BY DEF IInv, TypeOK
  <1>1. CASE UNCHANGED dbVars
    BY <1>0, <1>1 DEF dbVars
  <1>2. ASSUME NEW r \in Requests, Commit(r)
        PROVE  raw' \in Seq(RawRow) /\ txns' \in Seq(TxnRow)
    <2>1. NewRow(r) \in RawRow /\ raw' = Append(raw, NewRow(r))
      BY <1>2, CommitAppends
    <2>2. [raw |-> Len(raw) + 1] \in TxnRow
      BY <1>2, CommitAppends
    <2>3. txns' = txns \/ txns' = Append(txns, [raw |-> Len(raw) + 1])
      BY <1>2, CommitAppends
    <2> QED
      BY <1>0, <2>1, <2>2, <2>3, AppendKeeps
  <1>3. ASSUME NEW r \in Requests, RecoverInsert(r)
        PROVE  raw' \in Seq(RawRow) /\ txns' \in Seq(TxnRow)
    <2>1. [raw |-> row[r]] \in TxnRow
      BY <1>3 DEF RecoverInsert, Statement, Step, IInv, MemoryInv, TypeOK, TxnRow
    <2> QED
      BY <1>0, <1>3, <2>1, AppendKeeps DEF RecoverInsert
  <1>4. ASSUME NEW r \in Requests, RecoverMark(r)
        PROVE  raw' \in Seq(RawRow) /\ txns' \in Seq(TxnRow)
    <2>1. row[r] \in DOMAIN raw
      BY <1>4 DEF RecoverMark, Statement, Step, IInv, MemoryInv
    <2>2. raw' = [raw EXCEPT ![row[r]].status = "ok"] /\ txns' = txns
      BY <1>4 DEF RecoverMark
    <2> QED
      BY <1>0, <2>1, <2>2, MarkKeeps
  <1> QED
    BY <1>1, <1>2, <1>3, <1>4, DatabaseStep

(* The handlers' variables keep their types. *)
LEMMA TypeStep ==
  ASSUME IInv, [Next]_vars
  PROVE  TypeOK'
  <1>0. TypeOK
    BY DEF IInv
  <1> USE <1>0, RowTypeStep DEF TypeOK, Step, Statement, Answer, localVars
  <1>1. ASSUME NEW r \in Requests, NEW t \in Texts, Submit(r, t) PROVE TypeOK'
    BY <1>1, IngestAssumption DEF Submit, Steps, ParseStatus
  <1>2. ASSUME NEW r \in Requests, SubmitBlank(r) PROVE TypeOK'
    BY <1>2 DEF SubmitBlank, Steps, Response
  <1>3. ASSUME NEW r \in Requests, Persist(r) PROVE TypeOK'
    <2>1. CASE BeginTx(r)
      BY <2>1 DEF BeginTx, Steps, TxSteps
    <2>2. CASE InsertRaw(r)
      BY <2>2 DEF InsertRaw, Steps, TxSteps
    <2>3. CASE FindDuplicate(r)
      <3>1. PICK i \in RowsWithPrint(SMSFingerprint(text[r])) :
               /\ row' = [row EXCEPT ![r] = i]
               /\ status' = [status EXCEPT ![r] = raw[i].status]
        BY <2>3 DEF FindDuplicate
      <3>2. i \in DOMAIN raw
        BY DEF RowsWithPrint
      <3>3. raw[i] \in RawRow /\ i \in Nat
        BY <3>2
      <3>4. raw[i].status \in ParseStatus
        BY <3>3 DEF RawRow
      <3> QED
        BY <2>3, <3>1, <3>3, <3>4 DEF FindDuplicate, Steps, TxSteps
    <2>4. CASE ReadTxn(r)
      BY <2>4, TxnIdOfRow DEF ReadTxn, Steps, TxSteps
    <2>5. CASE CommitDuplicate(r)
      BY <2>5 DEF CommitDuplicate, Steps
    <2>6. CASE InsertTxn(r)
      BY <2>6 DEF InsertTxn, Steps, TxSteps
    <2>7. CASE Commit(r)
      BY <2>7 DEF Commit, Steps
    <2> QED
      BY <1>3, <2>1, <2>2, <2>3, <2>4, <2>5, <2>6, <2>7 DEF Persist
  <1>4. ASSUME NEW r \in Requests, Recover(r) PROVE TypeOK'
    <2>1. CASE StartRecovery(r)
      BY <2>1 DEF StartRecovery, Steps
    <2>2. CASE RecoverInsert(r)
      BY <2>2 DEF RecoverInsert, Steps
    <2>3. CASE RecoverRefused(r)
      BY <2>3 DEF RecoverRefused, Steps, Response, ParseStatus
    <2>4. CASE RecoverMark(r)
      BY <2>4 DEF RecoverMark, Steps
    <2>5. CASE RecoverRules(r)
      BY <2>5 DEF RecoverRules, Steps
    <2>6. CASE RecoverGet(r)
      BY <2>6 DEF RecoverGet, Steps, Response, ParseStatus
    <2> QED
      BY <1>4, <2>1, <2>2, <2>3, <2>4, <2>5, <2>6 DEF Recover
  <1>5. ASSUME NEW r \in Requests, ApplyRules(r) \/ GetTransaction(r) PROVE TypeOK'
    BY <1>5 DEF ApplyRules, GetTransaction, Steps
  <1>6. ASSUME NEW r \in Requests, Respond(r) PROVE TypeOK'
    BY <1>6 DEF Respond, ReportedStatus, Steps, Response, ParseStatus
  <1>7. ASSUME NEW r \in Requests, Depart(r) PROVE TypeOK'
    BY <1>7 DEF Depart, Steps, Response, ParseStatus, NoReply
  <1>8. ASSUME NEW r \in Requests, PersistFails(r) PROVE TypeOK'
    BY <1>8 DEF PersistFails, Steps, Response
  <1>9. ASSUME NEW r \in Requests, IgnoredFailure(r) PROVE TypeOK'
    <2>1. pc' \in [Requests -> Steps]
      BY <1>9 DEF IgnoredFailure, Steps, TxSteps
    <2>2. txn' \in [Requests -> Nat]
      BY <1>9 DEF IgnoredFailure
    <2> QED
      BY <1>9, <2>1, <2>2 DEF IgnoredFailure
  <1>10. ASSUME NEW r \in Requests, RecoveryFails(r) PROVE TypeOK'
    BY <1>10 DEF RecoveryFails, Steps, Response, ParseStatus
  <1>11. CASE Restart
    BY <1>11 DEF Restart, Steps, Response, ParseStatus, NoReply
  <1>12. CASE UNCHANGED vars
    BY <1>12 DEF vars
  <1> QED
    BY <1>1, <1>2, <1>3, <1>4, <1>5, <1>6, <1>7, <1>8, <1>9, <1>10, <1>11, <1>12
       DEF Next, Handler, Fault

----------------------------------------------------------------------------
(* The committed rows *)

(* The unique indexes and the foreign key survive every step: a commit     *)
(* brings a fingerprint no row has and a transaction for the row it adds, *)
(* a recovery checks the transaction index.                                *)
LEMMA RowsStep ==
  ASSUME IInv, [Next]_vars
  PROVE  RowsInv'
  <1>0. /\ raw \in Seq(RawRow) /\ txns \in Seq(TxnRow)
        /\ RowsInv
    BY DEF IInv, TypeOK
  <1>1. CASE UNCHANGED dbVars
    BY <1>0, <1>1 DEF dbVars, RowsInv
  <1>2. ASSUME NEW r \in Requests, Commit(r) PROVE RowsInv'
    <2>1. /\ NewRow(r) \in RawRow /\ raw' = Append(raw, NewRow(r))
          /\ [raw |-> Len(raw) + 1] \in TxnRow
          /\ \A i \in DOMAIN raw : raw[i].print # SMSFingerprint(text[r])
          /\ text[r] \in Texts
      BY <1>2, CommitAppends
    <2>2. txns' = txns \/ txns' = Append(txns, [raw |-> Len(raw) + 1])
      BY <1>2, CommitAppends
    <2>3. /\ DOMAIN raw = 1..Len(raw) /\ DOMAIN raw' = 1..(Len(raw) + 1)
          /\ \A i \in DOMAIN raw : raw'[i] = raw[i]
          /\ raw'[Len(raw) + 1] = NewRow(r)
          /\ Len(raw) \in Nat
      BY <1>0, <2>1, AppendKeeps
    <2>4. /\ DOMAIN txns = 1..Len(txns) /\ Len(txns) \in Nat
          /\ \A k \in DOMAIN txns : k \in DOMAIN txns' /\ txns'[k] = txns[k]
          /\ \A k \in DOMAIN txns' : \/ k \in DOMAIN txns
                                     \/ k = Len(txns) + 1 /\ txns'[k].raw = Len(raw) + 1
      <3>1. CASE txns' = txns
        BY <1>0, <3>1
      <3>2. CASE txns' = Append(txns, [raw |-> Len(raw) + 1])
        BY <1>0, <2>1, <3>2, AppendKeeps
      <3> QED
        BY <2>2, <3>1, <3>2
    <2>5. /\ NewRow(r).print = SMSFingerprint(NewRow(r).text)
          /\ NewRow(r).print = SMSFingerprint(text[r])
          /\ NewRow(r).print # NoPrint
      BY <2>1, FingerprintIsBody DEF NewRow
    <2>a. \A i \in DOMAIN raw' : i \in DOMAIN raw \/ i = Len(raw) + 1
      BY <2>3
    <2>6. \A i \in DOMAIN raw' : raw'[i].print \in {NoPrint, SMSFingerprint(raw'[i].text)}
      <3> SUFFICES ASSUME NEW i \in DOMAIN raw'
                   PROVE  raw'[i].print \in {NoPrint, SMSFingerprint(raw'[i].text)}
        OBVIOUS
      <3>1. CASE i \in DOMAIN raw
        BY <1>0, <2>3, <3>1 DEF RowsInv
      <3>2. CASE i = Len(raw) + 1
        BY <2>3, <2>5, <3>2
      <3> QED
        BY <2>a, <3>1, <3>2
    <2>7. \A i, j \in DOMAIN raw' : raw'[i].print = raw'[j].print /\ raw'[i].print # NoPrint => i = j
      BY <1>0, <2>1, <2>3, <2>5, <2>a DEF RowsInv
    <2>8. \A k \in DOMAIN txns' : txns'[k].raw \in DOMAIN raw'
      BY <1>0, <2>3, <2>4 DEF RowsInv
    <2>9. \A k, l \in DOMAIN txns' : txns'[k].raw = txns'[l].raw => k = l
      BY <1>0, <2>3, <2>4 DEF RowsInv
    <2>10. LegacyFingerprinted => \A i \in DOMAIN raw' : raw'[i].print # NoPrint
      BY <1>0, <2>3, <2>5 DEF RowsInv
    <2> QED
      BY <2>6, <2>7, <2>8, <2>9, <2>10 DEF RowsInv, LegacyFingerprinted
  <1>3. ASSUME NEW r \in Requests, RecoverInsert(r) PROVE RowsInv'
    <2>1. /\ row[r] \in DOMAIN raw
          /\ [raw |-> row[r]] \in TxnRow
      BY <1>3 DEF RecoverInsert, Statement, Step, IInv, MemoryInv, TypeOK, TxnRow
    <2>2. txns' = Append(txns, [raw |-> row[r]]) /\ raw' = raw
      BY <1>3 DEF RecoverInsert
    <2>3. \A k \in DOMAIN txns : txns[k].raw # row[r]
      BY <1>3 DEF RecoverInsert, TxnsOf
    <2>4. /\ DOMAIN txns = 1..Len(txns) /\ Len(txns) \in Nat
          /\ DOMAIN txns' = 1..(Len(txns) + 1)
          /\ \A k \in DOMAIN txns : txns'[k] = txns[k]
          /\ txns'[Len(txns) + 1].raw = row[r]
      BY <1>0, <2>1, <2>2, AppendKeeps
    <2> QED
      BY <1>0, <2>1, <2>2, <2>3, <2>4 DEF RowsInv, LegacyFingerprinted
  <1>4. ASSUME NEW r \in Requests, RecoverMark(r) PROVE RowsInv'
    <2>1. row[r] \in DOMAIN raw
      BY <1>4 DEF RecoverMark, Statement, Step, IInv, MemoryInv
    <2>2. raw' = [raw EXCEPT ![row[r]].status = "ok"] /\ txns' = txns
      BY <1>4 DEF RecoverMark
    <2>3. /\ DOMAIN raw' = DOMAIN raw
          /\ \A j \in DOMAIN raw : raw'[j].text = raw[j].text /\ raw'[j].print = raw[j].print
      BY <1>0, <2>1, <2>2, MarkKeeps
    <2> QED
      BY <1>0, <2>2, <2>3 DEF RowsInv, LegacyFingerprinted
  <1> QED
    BY <1>1, <1>2, <1>3, <1>4, DatabaseStep

(* A row says "ok" only with its transaction: they are committed together, *)
(* and a recovered row is marked after its transaction is in.              *)
LEMMA BooksStep ==
  ASSUME IInv, [Next]_vars
  PROVE  StatusMatchesBooks'
  <1>0. /\ raw \in Seq(RawRow) /\ txns \in Seq(TxnRow)
        /\ RowsInv /\ StatusMatchesBooks
    BY DEF IInv, TypeOK
  <1>1. CASE UNCHANGED dbVars
    BY <1>0, <1>1 DEF dbVars, StatusMatchesBooks, TxnsOf
  <1>2. ASSUME NEW r \in Requests, Commit(r) PROVE StatusMatchesBooks'
    <2>1. /\ NewRow(r) \in RawRow /\ raw' = Append(raw, NewRow(r))
          /\ [raw |-> Len(raw) + 1] \in TxnRow
          /\ status[r] \in {"ok", "failed", "ignored"}
          /\ \/ status[r] = "ok" /\ txns' = Append(txns, [raw |-> Len(raw) + 1])
             \/ status[r] # "ok" /\ txns' = txns
      BY <1>2, CommitAppends
    <2>2. /\ DOMAIN raw = 1..Len(raw) /\ DOMAIN raw' = 1..(Len(raw) + 1)
          /\ \A i \in DOMAIN raw : raw'[i] = raw[i]
          /\ raw'[Len(raw) + 1].status = status[r]
          /\ Len(raw) \in Nat
      BY <1>0, <2>1, AppendKeeps DEF NewRow
    <2>3. /\ DOMAIN txns = 1..Len(txns) /\ Len(txns) \in Nat
          /\ \A k \in DOMAIN txns : k \in DOMAIN txns' /\ txns'[k] = txns[k]
          /\ \/ status[r] # "ok" /\ txns' = txns
             \/ /\ status[r] = "ok"
                /\ DOMAIN txns' = 1..(Len(txns) + 1)
                /\ txns'[Len(txns) + 1].raw = Len(raw) + 1
      BY <1>0, <2>1, AppendKeeps
    <2>4. \A i \in DOMAIN raw : raw[i].status = "ok" =>
            \E k \in DOMAIN txns : txns[k].raw = i
      BY <1>0 DEF StatusMatchesBooks, TxnsOf
    <2>5. \A i \in DOMAIN raw' : raw'[i].status = "ok" =>
            \E k \in DOMAIN txns' : txns'[k].raw = i
      <3> SUFFICES ASSUME NEW i \in DOMAIN raw', raw'[i].status = "ok"
                   PROVE  \E k \in DOMAIN txns' : txns'[k].raw = i
        OBVIOUS
      <3>1. CASE i \in DOMAIN raw
        BY <2>2, <2>3, <2>4, <3>1
      <3>2. CASE i = Len(raw) + 1
        <4>1. Len(txns) + 1 \in DOMAIN txns' /\ txns'[Len(txns) + 1].raw = i
          BY <2>2, <2>3, <3>2
        <4> QED
          BY <4>1
      <3> QED
        BY <2>2, <3>1, <3>2
    <2>6. \A k \in DOMAIN txns' : raw'[txns'[k].raw].status \in {"ok", "pending"}
      BY <1>0, <2>2, <2>3 DEF StatusMatchesBooks, RowsInv
    <2>7. \A i \in DOMAIN raw' : raw'[i].status = "pending" => i <= Len(LegacyRaw)
      BY <1>0, <2>1, <2>2 DEF StatusMatchesBooks
    <2> QED
      BY <2>5, <2>6, <2>7 DEF StatusMatchesBooks, TxnsOf
  <1>3. ASSUME NEW r \in Requests, RecoverInsert(r) PROVE StatusMatchesBooks'
    <2>1. /\ row[r] \in DOMAIN raw
          /\ [raw |-> row[r]] \in TxnRow
          /\ raw[row[r]].status \in {"pending", "ok"}
      BY <1>3 DEF RecoverInsert, Statement, Step, IInv, MemoryInv, TypeOK, TxnRow
    <2>2. txns' = Append(txns, [raw |-> row[r]]) /\ raw' = raw
      BY <1>3 DEF RecoverInsert
    <2>3. /\ DOMAIN txns = 1..Len(txns) /\ Len(txns) \in Nat
          /\ DOMAIN txns' = 1..(Len(txns) + 1)
          /\ \A k \in DOMAIN txns : k \in DOMAIN txns' /\ txns'[k] = txns[k]
          /\ txns'[Len(txns) + 1].raw = row[r]
      BY <1>0, <2>1, <2>2, AppendKeeps
    <2> QED
      BY <1>0, <2>1, <2>2, <2>3 DEF StatusMatchesBooks, TxnsOf
  <1>4. ASSUME NEW r \in Requests, RecoverMark(r) PROVE StatusMatchesBooks'
    <2>1. /\ row[r] \in DOMAIN raw
          /\ txn[r] \in DOMAIN txns /\ txns[txn[r]].raw = row[r]
      BY <1>4 DEF RecoverMark, Statement, Step, IInv, MemoryInv
    <2>2. raw' = [raw EXCEPT ![row[r]].status = "ok"] /\ txns' = txns
      BY <1>4 DEF RecoverMark
    <2>3. /\ DOMAIN raw' = DOMAIN raw
          /\ raw'[row[r]].status = "ok"
          /\ \A j \in DOMAIN raw : j # row[r] => raw'[j] = raw[j]
      BY <1>0, <2>1, <2>2, MarkKeeps
    <2> QED
      BY <1>0, <2>1, <2>2, <2>3 DEF StatusMatchesBooks, TxnsOf, RowsInv
  <1> QED
    BY <1>1, <1>2, <1>3, <1>4, DatabaseStep

----------------------------------------------------------------------------
(* The open transaction *)

(* While some handler is inside a transaction nobody else changes raw_sms, *)
(* so a fingerprint found free is still free at the commit.                *)
LEMMA TransactionStep ==
  ASSUME IInv, [Next]_vars
  PROVE  TransactionInv'
  <1>0. TypeOK /\ TransactionInv /\ Free \notin Requests
    BY IngestAssumption DEF IInv
  <1> USE <1>0 DEF TypeOK, TransactionInv, Step, Statement, Answer, dbVars, localVars,
                   TxSteps, RowsWithPrint
  <1>1. ASSUME NEW r \in Requests, NEW t \in Texts, Submit(r, t) PROVE TransactionInv'
    BY <1>1 DEF Submit
  <1>2. ASSUME NEW r \in Requests, SubmitBlank(r) PROVE TransactionInv'
    BY <1>2 DEF SubmitBlank
  <1>3. ASSUME NEW r \in Requests, BeginTx(r) PROVE TransactionInv'
    BY <1>3 DEF BeginTx
  <1>4. ASSUME NEW r \in Requests, InsertRaw(r) PROVE TransactionInv'
    BY <1>4 DEF InsertRaw
  <1>5. ASSUME NEW r \in Requests, FindDuplicate(r) PROVE TransactionInv'
    BY <1>5 DEF FindDuplicate
  <1>6. ASSUME NEW r \in Requests, ReadTxn(r) PROVE TransactionInv'
    BY <1>6 DEF ReadTxn
  <1>7. ASSUME NEW r \in Requests, CommitDuplicate(r) PROVE TransactionInv'
    BY <1>7 DEF CommitDuplicate
  <1>8. ASSUME NEW r \in Requests, InsertTxn(r) PROVE TransactionInv'
    BY <1>8 DEF InsertTxn
  <1>9. ASSUME NEW r \in Requests, Commit(r) PROVE TransactionInv'
    <2>1. /\ conn = r /\ conn' = Free /\ staged' = {}
          /\ \A q \in Requests : pc'[q] \notin TxSteps
      BY <1>9 DEF Commit
    <2> QED
      BY <2>1
  <1>10. ASSUME NEW r \in Requests, ApplyRules(r) \/ GetTransaction(r) PROVE TransactionInv'
    BY <1>10 DEF ApplyRules, GetTransaction
  <1>11. ASSUME NEW r \in Requests, Respond(r) PROVE TransactionInv'
    BY <1>11 DEF Respond
  <1>12. ASSUME NEW r \in Requests, StartRecovery(r) PROVE TransactionInv'
    BY <1>12 DEF StartRecovery
  <1>13. ASSUME NEW r \in Requests, RecoverInsert(r) PROVE TransactionInv'
    BY <1>13 DEF RecoverInsert
  <1>14. ASSUME NEW r \in Requests, RecoverRefused(r) PROVE TransactionInv'
    BY <1>14 DEF RecoverRefused
  <1>15. ASSUME NEW r \in Requests, RecoverMark(r) PROVE TransactionInv'
    <2>1. /\ conn = Free /\ conn' = Free /\ staged' = {}
          /\ \A q \in Requests : pc'[q] \notin TxSteps
      BY <1>15 DEF RecoverMark
    <2> QED
      BY <2>1
  <1>16. ASSUME NEW r \in Requests, RecoverRules(r) \/ RecoverGet(r) PROVE TransactionInv'
    BY <1>16 DEF RecoverRules, RecoverGet
  <1>17. ASSUME NEW r \in Requests, Depart(r) PROVE TransactionInv'
    BY <1>17 DEF Depart
  <1>18. ASSUME NEW r \in Requests, PersistFails(r) PROVE TransactionInv'
    BY <1>18 DEF PersistFails
  <1>19. ASSUME NEW r \in Requests, IgnoredFailure(r) PROVE TransactionInv'
    BY <1>19 DEF IgnoredFailure
  <1>20. ASSUME NEW r \in Requests, RecoveryFails(r) PROVE TransactionInv'
    BY <1>20 DEF RecoveryFails
  <1>21. CASE Restart
    BY <1>21 DEF Restart
  <1>22. CASE UNCHANGED vars
    BY <1>22 DEF vars
  <1> QED
    BY <1>1, <1>2, <1>3, <1>4, <1>5, <1>6, <1>7, <1>8, <1>9, <1>10, <1>11, <1>12, <1>13,
       <1>14, <1>15, <1>16, <1>17, <1>18, <1>19, <1>20, <1>21, <1>22
  DEF Next, Handler, Persist, Recover, Fault

----------------------------------------------------------------------------
(* What the handlers remember *)

(* MemoryInv and ReplyInv for one handler. *)
Remembers(q) ==
  /\ pc[q] = "idle" => row[q] = 0 /\ txn[q] = 0 /\ reply[q] = NoReply
  /\ pc[q] \notin {"idle", "answered"} => text[q] \in Texts /\ reply[q] = NoReply
  /\ pc[q] \in {"begin", "insertRaw", "insertTxn", "commit"} =>
       row[q] = 0 /\ txn[q] = 0 /\ status[q] = Verdict[text[q]]
  /\ row[q] # 0 => /\ text[q] \in Texts
                   /\ row[q] \in DOMAIN raw
                   /\ raw[row[q]].print = SMSFingerprint(text[q])
                   /\ status[q] = "pending" => raw[row[q]].status \in {"pending", "ok"}
  /\ txn[q] # 0 => /\ text[q] \in Texts
                   /\ txn[q] \in DOMAIN txns
                   /\ raw[txns[txn[q]].raw].print = SMSFingerprint(text[q])
  /\ pc[q] \in {"readTxn", "commitDup"} => row[q] # 0
  /\ pc[q] \in {"recInsert", "recMark", "recRules", "recGet"} =>
       row[q] # 0 /\ status[q] = "pending"
  /\ pc[q] = "recMark" => txn[q] # 0 /\ txns[txn[q]].raw = row[q]
  /\ pc[q] \in {"recRules", "recGet"} => txn[q] # 0
  /\ reply[q].status = "ok" => /\ text[q] \in Texts
                               /\ reply[q].txn \in DOMAIN txns
                               /\ raw[txns[reply[q].txn].raw].print = SMSFingerprint(text[q])

LEMMA RemembersAll == MemoryInv /\ ReplyInv <=> \A q \in Requests : Remembers(q)
  BY DEF MemoryInv, ReplyInv, Remembers

(* A handler that a step leaves alone still remembers right: rows and      *)
(* transactions are never taken back.                                      *)
LEMMA OthersRemember ==
  ASSUME IInv, [Next]_vars, NEW q \in Requests,
         pc'[q] = pc[q], text'[q] = text[q], row'[q] = row[q],
         status'[q] = status[q], txn'[q] = txn[q], reply'[q] = reply[q]
  PROVE  Remembers(q)'
  <1>1. Remembers(q) /\ Grows
    BY RemembersAll, HistoryStep DEF IInv
  <1>2. \A k \in DOMAIN txns : txns[k].raw \in DOMAIN raw
    BY DEF IInv, RowsInv
  <1> QED
    BY <1>1, <1>2 DEF Remembers, Grows

(* Each step of a handler keeps what it remembers true. *)
LEMMA MemoryStep ==
  ASSUME IInv, [Next]_vars, NEW q \in Requests
  PROVE  Remembers(q)'
  <1>0. /\ TypeOK /\ Grows /\ Remembers(q)
        /\ \A k \in DOMAIN txns : txns[k].raw \in DOMAIN raw
        /\ NoReply.status = "none"
    BY HistoryStep, RemembersAll DEF IInv, RowsInv, NoReply
  <1> USE <1>0 DEF TypeOK, Step, Statement, Answer, dbVars, localVars
  <1>1. ASSUME NEW r \in Requests, NEW t \in Texts, Submit(r, t) PROVE Remembers(q)'
    <2>1. CASE q # r
      BY <1>1, <2>1, OthersRemember DEF Submit
    <2>2. CASE q = r
      BY <1>1, <2>2 DEF Submit, Remembers
    <2> QED
      BY <2>1, <2>2
  <1>2. ASSUME NEW r \in Requests, SubmitBlank(r) PROVE Remembers(q)'
    <2>1. CASE q # r
      BY <1>2, <2>1, OthersRemember DEF SubmitBlank
    <2>2. CASE q = r
      BY <1>2, <2>2 DEF SubmitBlank, Remembers, Grows
    <2> QED
      BY <2>1, <2>2
  <1>3. ASSUME NEW r \in Requests, BeginTx(r) PROVE Remembers(q)'
    <2>1. CASE q # r
      BY <1>3, <2>1, OthersRemember DEF BeginTx
    <2>2. CASE q = r
      BY <1>3, <2>2 DEF BeginTx, Remembers, Grows
    <2> QED
      BY <2>1, <2>2
  <1>4. ASSUME NEW r \in Requests, InsertRaw(r) PROVE Remembers(q)'
    <2>1. CASE q # r
      BY <1>4, <2>1, OthersRemember DEF InsertRaw
    <2>2. CASE q = r
      BY <1>4, <2>2 DEF InsertRaw, Remembers, Grows
    <2> QED
      BY <2>1, <2>2
  <1>5. ASSUME NEW r \in Requests, FindDuplicate(r) PROVE Remembers(q)'
    <2>1. CASE q # r
      BY <1>5, <2>1, OthersRemember DEF FindDuplicate
    <2>2. CASE q = r
      <3>1. PICK i \in RowsWithPrint(SMSFingerprint(text[q])) :
               /\ row' = [row EXCEPT ![q] = i]
               /\ status' = [status EXCEPT ![q] = raw[i].status]
        BY <1>5, <2>2 DEF FindDuplicate
      <3>2. i \in DOMAIN raw /\ raw[i].print = SMSFingerprint(text[q])
        BY DEF RowsWithPrint
      <3>3. text[q] \in Texts /\ txn[q] = 0 /\ reply[q] = NoReply
        BY <1>5, <2>2 DEF FindDuplicate, Remembers
      <3> QED
        BY <1>5, <2>2, <3>1, <3>2, <3>3 DEF FindDuplicate, Remembers
    <2> QED
      BY <2>1, <2>2
  <1>6. ASSUME NEW r \in Requests, ReadTxn(r) PROVE Remembers(q)'
    <2>1. CASE q # r
      BY <1>6, <2>1, OthersRemember DEF ReadTxn
    <2>2. CASE q = r
      <3>1. txn'[q] # 0 => txn'[q] \in DOMAIN txns /\ txns[txn'[q]].raw = row[q]
        BY <1>6, <2>2, TxnIdOfRow DEF ReadTxn
      <3> QED
        BY <1>6, <2>2, <3>1 DEF ReadTxn, Remembers
    <2> QED
      BY <2>1, <2>2
  <1>7. ASSUME NEW r \in Requests, CommitDuplicate(r) PROVE Remembers(q)'
    <2>1. CASE q # r
      BY <1>7, <2>1, OthersRemember DEF CommitDuplicate
    <2>2. CASE q = r
      BY <1>7, <2>2 DEF CommitDuplicate, Remembers, Grows
    <2> QED
      BY <2>1, <2>2
  <1>8. ASSUME NEW r \in Requests, InsertTxn(r) PROVE Remembers(q)'
    <2>1. CASE q # r
      BY <1>8, <2>1, OthersRemember DEF InsertTxn
    <2>2. CASE q = r
      BY <1>8, <2>2 DEF InsertTxn, Remembers, Grows
    <2> QED
      BY <2>1, <2>2
  <1>9. ASSUME NEW r \in Requests, Commit(r) PROVE Remembers(q)'
    <2>1. CASE q # r
      BY <1>9, <2>1, OthersRemember DEF Commit
    <2>2. CASE q = r
      BY <1>9, <2>2 DEF Commit, Remembers, Grows
    <2> QED
      BY <2>1, <2>2
  <1>10. ASSUME NEW r \in Requests, ApplyRules(r) PROVE Remembers(q)'
    <2>1. CASE q # r
      BY <1>10, <2>1, OthersRemember DEF ApplyRules
    <2>2. CASE q = r
      BY <1>10, <2>2 DEF ApplyRules, Remembers, Grows
    <2> QED
      BY <2>1, <2>2
  <1>11. ASSUME NEW r \in Requests, GetTransaction(r) PROVE Remembers(q)'
    <2>1. CASE q # r
      BY <1>11, <2>1, OthersRemember DEF GetTransaction
    <2>2. CASE q = r
      BY <1>11, <2>2 DEF GetTransaction, Remembers, Grows
    <2> QED
      BY <2>1, <2>2
  <1>12. ASSUME NEW r \in Requests, Respond(r) PROVE Remembers(q)'
    <2>1. CASE q # r
      BY <1>12, <2>1, OthersRemember DEF Respond
    <2>2. CASE q = r
      BY <1>12, <2>2 DEF Respond, Remembers, Grows, ReportedStatus
    <2> QED
      BY <2>1, <2>2
  <1>13. ASSUME NEW r \in Requests, StartRecovery(r) PROVE Remembers(q)'
    <2>1. CASE q # r
      BY <1>13, <2>1, OthersRemember DEF StartRecovery
    <2>2. CASE q = r
      BY <1>13, <2>2 DEF StartRecovery, Recoverable, Remembers
    <2> QED
      BY <2>1, <2>2
  <1>14. ASSUME NEW r \in Requests, RecoverInsert(r) PROVE Remembers(q)'
    <2>1. CASE q # r
      BY <1>14, <2>1, OthersRemember DEF RecoverInsert
    <2>2. CASE q = r
      BY <1>14, <2>2 DEF RecoverInsert, Remembers, Grows
    <2> QED
      BY <2>1, <2>2
  <1>15. ASSUME NEW r \in Requests, RecoverRefused(r) PROVE Remembers(q)'
    <2>1. CASE q # r
      BY <1>15, <2>1, OthersRemember DEF RecoverRefused
    <2>2. CASE q = r
      BY <1>15, <2>2 DEF RecoverRefused, Remembers, Grows
    <2> QED
      BY <2>1, <2>2
  <1>16. ASSUME NEW r \in Requests, RecoverMark(r) PROVE Remembers(q)'
    <2>1. CASE q # r
      BY <1>16, <2>1, OthersRemember DEF RecoverMark
    <2>2. CASE q = r
      BY <1>16, <2>2 DEF RecoverMark, Remembers, Grows
    <2> QED
      BY <2>1, <2>2
  <1>17. ASSUME NEW r \in Requests, RecoverRules(r) PROVE Remembers(q)'
    <2>1. CASE q # r
      BY <1>17, <2>1, OthersRemember DEF RecoverRules
    <2>2. CASE q = r
      BY <1>17, <2>2 DEF RecoverRules, Remembers, Grows
    <2> QED
      BY <2>1, <2>2
  <1>18. ASSUME NEW r \in Requests, RecoverGet(r) PROVE Remembers(q)'
    <2>1. CASE q # r
      BY <1>18, <2>1, OthersRemember DEF RecoverGet
    <2>2. CASE q = r
      BY <1>18, <2>2 DEF RecoverGet, Remembers, Grows
    <2> QED
      BY <2>1, <2>2
  <1>19. ASSUME NEW r \in Requests, Depart(r) PROVE Remembers(q)'
    <2>1. CASE q # r
      BY <1>19, <2>1, OthersRemember DEF Depart
    <2>2. CASE q = r
      BY <1>19, <2>2 DEF Depart, Remembers, Grows, NoReply
    <2> QED
      BY <2>1, <2>2
  <1>20. ASSUME NEW r \in Requests, PersistFails(r) PROVE Remembers(q)'
    <2>1. CASE q # r
      BY <1>20, <2>1, OthersRemember DEF PersistFails
    <2>2. CASE q = r
      BY <1>20, <2>2 DEF PersistFails, Remembers, Grows
    <2> QED
      BY <2>1, <2>2
  <1>21. ASSUME NEW r \in Requests, IgnoredFailure(r) PROVE Remembers(q)'
    <2>1. CASE q # r
      BY <1>21, <2>1, OthersRemember DEF IgnoredFailure
    <2>2. CASE q = r
      BY <1>21, <2>2 DEF IgnoredFailure, Remembers, Grows
    <2> QED
      BY <2>1, <2>2
  <1>22. ASSUME NEW r \in Requests, RecoveryFails(r) PROVE Remembers(q)'
    <2>1. CASE q # r
      BY <1>22, <2>1, OthersRemember DEF RecoveryFails
    <2>2. CASE q = r
      BY <1>22, <2>2 DEF RecoveryFails, Remembers, Grows
    <2> QED
      BY <2>1, <2>2
  <1>23. CASE Restart
    BY <1>23 DEF Restart, Remembers, NoReply
  <1>24. CASE UNCHANGED vars
    BY <1>24, OthersRemember DEF vars
  <1> QED
    BY <1>1, <1>2, <1>3, <1>4, <1>5, <1>6, <1>7, <1>8, <1>9, <1>10, <1>11, <1>12,
     <1>13, <1>14, <1>15, <1>16, <1>17, <1>18, <1>19, <1>20, <1>21, <1>22, <1>23, <1>24
  DEF Next, Handler, Persist, Recover, Fault

----------------------------------------------------------------------------
(* The theorems *)

LEMMA IInvInit == Init => IInv
  <1> SUFFICES ASSUME Init PROVE IInv
    OBVIOUS
  <1>1. TypeOK
    BY TypeInit
  <1>2. TransactionInv
    BY IngestAssumption DEF Init, TransactionInv, TxSteps
  <1>3. \A q \in Requests : Remembers(q)
    BY DEF Init, Remembers, NoReply
  <1>4. RowsInv
    BY IngestAssumption DEF Init, LegacyWellFormed, RowsInv, LegacyFingerprinted
  <1>5. StatusMatchesBooks
    <2>1. raw = LegacyRaw /\ txns = LegacyTxns
      BY DEF Init
    <2>2. \A i \in DOMAIN raw : raw[i].status = "ok" => TxnsOf(i) # {}
      BY <2>1, IngestAssumption DEF LegacyWellFormed, TxnsOf
    <2>3. \A i \in DOMAIN raw : i <= Len(LegacyRaw)
      BY <2>1, IngestAssumption DEF LegacyWellFormed
    <2> QED
      BY <2>1, <2>2, <2>3, IngestAssumption DEF LegacyWellFormed, StatusMatchesBooks
  <1> QED
    BY <1>1, <1>2, <1>3, <1>4, <1>5, RemembersAll DEF IInv

(* The inductive invariant: type correctness, who holds the connection and *)
(* what is staged, what each handler remembers, the unique indexes, and    *)
(* status against bookings.                                                *)
THEOREM Inductive == Spec => []IInv
  <1>1. ASSUME IInv, [Next]_vars PROVE IInv'
    <2>1. TypeOK' /\ TransactionInv' /\ RowsInv' /\ StatusMatchesBooks'
      BY <1>1, TypeStep, TransactionStep, RowsStep, BooksStep
    <2>2. \A q \in Requests : Remembers(q)'
      BY <1>1, MemoryStep
    <2>3. MemoryInv' /\ ReplyInv'
      BY <2>2 DEF MemoryInv, ReplyInv, Remembers
    <2> QED
      BY <2>1, <2>3 DEF IInv
  <1> QED
    BY <1>1, IInvInit, PTL DEF Spec

(* Every variable of the ingestion keeps its type. *)
THEOREM TypeCorrect == Spec => []TypeOK
  <1>1. IInv => TypeOK
    BY DEF IInv
  <1> QED
    BY <1>1, Inductive, PTL

(* If no row is older than the fingerprint column, a message body is       *)
(* booked at most once, however it is resubmitted and whatever fails.      *)
THEOREM BookedOnce == LegacyFingerprinted => (Spec => []OncePerBody)
  <1>1. LegacyFingerprinted /\ IInv => OncePerBody
    BY DEF IInv, RowsInv, OncePerBody, BodyOf
  <1>2. CASE LegacyFingerprinted
    <2>1. IInv => OncePerBody
      BY <1>1, <1>2
    <2>2. Spec => []OncePerBody
      BY <2>1, Inductive, PTL
    <2> QED
      BY <2>2
  <1> QED
    BY <1>2

(* A row is "ok" exactly when it is booked, and nothing new stays pending. *)
THEOREM StatusesMatch == Spec => []StatusMatchesBooks
  <1>1. IInv => StatusMatchesBooks
    BY DEF IInv
  <1> QED
    BY <1>1, Inductive, PTL

(* An "ok" answer names a booked transaction of the submitted body. *)
THEOREM RepliesTruthful == Spec => []TruthfulReply
  <1>1. IInv => TruthfulReply
    BY FingerprintIsBody DEF IInv, RowsInv, ReplyInv, TruthfulReply, BodyOf
  <1> QED
    BY <1>1, Inductive, PTL

(* No committed row or transaction is ever lost or rewritten. *)
THEOREM HistoryIsKept == Spec => HistoryKept
  <1>1. IInv /\ [Next]_vars => [Grows]_dbVars
    BY HistoryStep
  <1>2. [][Grows]_dbVars => HistoryKept
    BY PTL DEF Grows, HistoryKept
  <1> QED
    BY <1>1, <1>2, Inductive, PTL DEF Spec

----------------------------------------------------------------------------
(* Progress: the part of "every submission is answered" that needs no      *)
(* fairness                                                                *)

(* How many statements a handler is away from being idle, at most.         *)
Remaining ==
  [idle |-> 0, answered |-> 1, recGet |-> 2, recRules |-> 3, recMark |-> 4, recInsert |-> 5,
   reply |-> 6, get |-> 7, rules |-> 8, commitDup |-> 8, commit |-> 9, readTxn |-> 9,
   insertTxn |-> 10, insertRaw |-> 11, begin |-> 12]

Advances ==
  \A r \in Requests :
    pc[r] # "idle" /\ pc'[r] # pc[r] => Remaining[pc'[r]] < Remaining[pc[r]]

(* The statements that need the connection of the pool.                    *)
PoolSteps == {"begin", "rules", "get", "recInsert", "recMark", "recRules", "recGet"}

WaitsForOther ==
  \A r \in Requests :
    pc[r] \in PoolSteps /\ conn # Free =>
      conn # r /\ conn \in Requests /\ pc[conn] \in TxSteps \ PoolSteps

LEMMA StepAdvances ==
  ASSUME TypeOK, NEW r \in Requests, NEW from \in Steps, NEW to \in Steps, Step(r, from, to),
         from # "idle" => Remaining[to] < Remaining[from]
  PROVE  Advances
  BY DEF TypeOK, Step, Advances

(* No handler takes a statement again or goes back to an earlier one: a    *)
(* submission is over after a dozen statements, whatever fails or restarts *)
(* and whoever else runs.                                                  *)
THEOREM HandlersAdvance == Spec => [][Advances]_vars
  <1>1. ASSUME IInv, [Next]_vars PROVE [Advances]_vars
    <2> SUFFICES ASSUME Next PROVE Advances
      BY <1>1
    <2>1. TypeOK
      BY <1>1 DEF IInv
    <2> USE <2>1 DEF Steps, TxSteps, Remaining
    <2>2. ASSUME NEW r \in Requests, NEW t \in Texts, Submit(r, t) PROVE Advances
      BY <2>2, StepAdvances DEF Submit
    <2>3. ASSUME NEW r \in Requests, SubmitBlank(r) \/ Depart(r) PROVE Advances
      BY <2>3, StepAdvances DEF SubmitBlank, Depart
    <2>4. ASSUME NEW r \in Requests, Persist(r) PROVE Advances
      <3>1. CASE BeginTx(r) \/ ReadTxn(r) \/ InsertTxn(r) \/ FindDuplicate(r)
        BY <3>1, StepAdvances DEF BeginTx, ReadTxn, InsertTxn, FindDuplicate, Statement
      <3>2. CASE InsertRaw(r)
        BY <3>2, StepAdvances DEF InsertRaw
      <3>3. CASE CommitDuplicate(r)
        BY <3>3, StepAdvances DEF CommitDuplicate
      <3>4. CASE Commit(r)
        <4>1. Step(r, "commit", IF "txn" \in staged THEN "rules" ELSE "reply")
          BY <3>4 DEF Commit, Step
        <4> QED
          BY <4>1, StepAdvances
      <3> QED
        BY <2>4, <3>1, <3>2, <3>3, <3>4 DEF Persist
    <2>5. ASSUME NEW r \in Requests, Recover(r) PROVE Advances
      BY <2>5, StepAdvances DEF Recover, StartRecovery, RecoverInsert, RecoverRefused, RecoverMark,
                                RecoverRules, RecoverGet, Statement
    <2>6. ASSUME NEW r \in Requests, ApplyRules(r) \/ GetTransaction(r) \/ Respond(r)
          PROVE  Advances
      BY <2>6, StepAdvances DEF ApplyRules, GetTransaction, Respond, Statement
    <2>7. ASSUME NEW r \in Requests, Fault(r) PROVE Advances
      <3>1. CASE PersistFails(r)
        <4>1. PICK from \in {"begin", "insertRaw", "insertTxn", "commit", "commitDup"} :
                Step(r, from, "answered")
          BY <3>1 DEF PersistFails, Step
        <4> QED
          BY <4>1, StepAdvances
      <3>2. CASE IgnoredFailure(r)
        BY <3>2, StepAdvances DEF IgnoredFailure
      <3>3. CASE RecoveryFails(r)
        <4>1. PICK from \in {"recInsert", "recGet"} : Step(r, from, "answered")
          BY <3>3 DEF RecoveryFails, Step
        <4> QED
          BY <4>1, StepAdvances
      <3> QED
        BY <2>7, <3>1, <3>2, <3>3 DEF Fault
    <2>8. ASSUME Restart PROVE Advances
      <3>1. \A r \in Requests : pc'[r] = "idle" /\ pc[r] \in Steps
        BY <2>8 DEF Restart, TypeOK
      <3>2. \A s \in Steps : s # "idle" => Remaining["idle"] < Remaining[s]
        OBVIOUS
      <3> QED
        BY <3>1, <3>2 DEF Advances
    <2> HIDE <2>1 DEF Steps, TxSteps, Remaining
    <2>9. CASE \E r \in Requests : Handler(r) \/ Fault(r)
      BY <2>4, <2>5, <2>6, <2>7, <2>9, Zenon DEF Handler
    <2> QED
      BY <2>2, <2>3, <2>8, <2>9, Zenon DEF Next
  <1> QED
    BY <1>1, Inductive, PTL DEF Spec

(* Whoever waits for the connection waits for another handler, and that    *)
(* one is at a statement of its own transaction, for which it waits for    *)
(* nobody: the duplicate path has given its connection back before         *)
(* GetTransaction asks for one, on every path and after every failure.     *)
THEOREM NobodyWaitsForItself == Spec => []WaitsForOther
  <1>1. IInv => WaitsForOther
    BY IngestAssumption DEF IInv, TypeOK, TransactionInv, WaitsForOther, PoolSteps, TxSteps
  <1> QED
    BY <1>1, Inductive, PTL

----------------------------------------------------------------------------
(* The ledger *)

(* What is known of the row of handler q's body while it is on its way to  *)
(* the answer: the status to be reported is the recorded one, which a      *)
(* recovery may meanwhile have settled.                                    *)
Reporting == {"readTxn", "commitDup", "rules", "get", "reply"}

Reports(q) ==
  pc[q] \in Reporting =>
    \E i \in DOMAIN raw :
      /\ raw[i].print = SMSFingerprint(text[q])
      /\ \/ raw[i].status = status[q]
         \/ raw[i].status = "ok" /\ status[q] = "pending"

ReportInv == \A q \in Requests : Reports(q)

(* A handler on its way to the answer that keeps text and status keeps its *)
(* row.                                                                    *)
LEMMA ReportKept ==
  ASSUME Grows, NEW q \in Requests, Reports(q),
         text'[q] = text[q], status'[q] = status[q],
         pc'[q] \in Reporting => pc[q] \in Reporting
  PROVE  Reports(q)'
  <1> SUFFICES ASSUME pc'[q] \in Reporting
               PROVE  \E i \in DOMAIN raw' :
                        /\ raw'[i].print = SMSFingerprint(text[q])
                        /\ \/ raw'[i].status = status[q]
                           \/ raw'[i].status = "ok" /\ status[q] = "pending"
    BY DEF Reports, SMSFingerprint
  <1>1. PICK i \in DOMAIN raw :
           /\ raw[i].print = SMSFingerprint(text[q])
           /\ \/ raw[i].status = status[q]
              \/ raw[i].status = "ok" /\ status[q] = "pending"
    BY DEF Reports
  <1>2. i \in DOMAIN raw'
    BY DEF Grows
  <1> QED
    BY <1>1, <1>2 DEF Grows

LEMMA ReportStep ==
  ASSUME IInv, ReportInv, [Next]_vars
  PROVE  ReportInv'
  <1> SUFFICES ASSUME NEW q \in Requests PROVE Reports(q)'
    BY DEF ReportInv
  <1>0. TypeOK /\ Grows /\ Reports(q)
    BY HistoryStep DEF IInv, ReportInv
  <1>1. ASSUME NEW r \in Requests, FindDuplicate(r) PROVE Reports(q)'
    <2>1. CASE q # r
      BY <1>0, <1>1, <2>1, ReportKept DEF FindDuplicate, Step, TypeOK
    <2>2. CASE q = r
      <3>1. PICK i \in RowsWithPrint(SMSFingerprint(text[q])) :
               status' = [status EXCEPT ![q] = raw[i].status]
        BY <1>1, <2>2 DEF FindDuplicate
      <3>2. i \in DOMAIN raw' /\ raw'[i].print = SMSFingerprint(text'[q])
        BY <1>1 DEF RowsWithPrint, FindDuplicate, dbVars
      <3>3. raw'[i].status = status'[q]
        BY <1>0, <1>1, <3>1 DEF FindDuplicate, dbVars, TypeOK
      <3> QED
        BY <3>2, <3>3 DEF Reports
    <2> QED
      BY <2>1, <2>2
  <1>2. ASSUME NEW r \in Requests, Commit(r) PROVE Reports(q)'
    <2>1. CASE q # r
      BY <1>0, <1>2, <2>1, ReportKept DEF Commit, TypeOK
    <2>2. CASE q = r
      <3>1. /\ Len(raw) + 1 \in DOMAIN raw'
            /\ raw'[Len(raw) + 1] = NewRow(q)
        BY <1>0, <1>2, <2>2, CommitAppends, AppendKeeps DEF TypeOK
      <3>2. NewRow(q).print = SMSFingerprint(text'[q]) /\ NewRow(q).status = status'[q]
        BY <1>2 DEF NewRow, Commit
      <3> QED
        BY <3>1, <3>2 DEF Reports
    <2> QED
      BY <2>1, <2>2
  <1>3. ASSUME NEW r \in Requests, NEW t \in Texts, Submit(r, t) PROVE Reports(q)'
    BY <1>0, <1>3, ReportKept DEF Submit, Step, TypeOK, Reports, Reporting
  <1>4. ASSUME NEW r \in Requests, SubmitBlank(r) \/ Depart(r) PROVE Reports(q)'
    BY <1>0, <1>4, ReportKept DEF SubmitBlank, Depart, Step, TypeOK, Reports, Reporting
  <1>5. CASE Restart
    BY <1>5 DEF Restart, Reports, Reporting
  <1>6. ASSUME NEW r \in Requests,
               \/ BeginTx(r) \/ InsertRaw(r) \/ ReadTxn(r) \/ CommitDuplicate(r)
               \/ InsertTxn(r) \/ ApplyRules(r) \/ GetTransaction(r)
        PROVE  Reports(q)'
    BY <1>0, <1>6, ReportKept
       DEF BeginTx, InsertRaw, ReadTxn, CommitDuplicate, InsertTxn, ApplyRules,
           GetTransaction, Step, Statement, localVars, TypeOK, Reporting
  <1>7. ASSUME NEW r \in Requests, Recover(r) \/ Respond(r) PROVE Reports(q)'
    BY <1>0, <1>7, ReportKept
       DEF Recover, StartRecovery, RecoverInsert, RecoverRefused, RecoverMark, RecoverRules,
           RecoverGet, Respond, Step, Statement, localVars, TypeOK, Reporting
  <1>8. ASSUME NEW r \in Requests, Fault(r) PROVE Reports(q)'
    BY <1>0, <1>8, ReportKept
       DEF Fault, PersistFails, IgnoredFailure, RecoveryFails, Step, TypeOK, Reporting
  <1>9. CASE UNCHANGED vars
    BY <1>0, <1>9, ReportKept DEF vars
  <1> QED
    BY <1>1, <1>2, <1>3, <1>4, <1>5, <1>6, <1>7, <1>8, <1>9 DEF Next, Handler, Persist

(* A set without two different members has no member or one. *)
LEMMA CountOfOne ==
  ASSUME NEW S, \A k, l \in S : k = l
  PROVE  Cardinality(S) = IF S = {} THEN 0 ELSE 1
  <1>1. CASE S = {}
    BY <1>1, FS_EmptySet
  <1>2. CASE S # {}
    <2>1. PICK k \in S : TRUE
      BY <1>2
    <2>2. S = {k}
      BY <2>1
    <2>3. Cardinality(S) = 1
      BY <2>2, FS_Singleton
    <2> QED
      BY <1>2, <2>3
  <1> QED
    BY <1>1, <1>2

(* The ledger's books, read off the rows: what is recorded of a body is    *)
(* the status of its row, and it is booked when a transaction has its row. *)
BooksRead ==
  /\ Outcome = [b \in Bodies |-> Outcome[b]]
  /\ Entries = [b \in Bodies |-> Entries[b]]
  /\ \A b \in Bodies :
       /\ (\A i \in DOMAIN raw : raw[i].print # b) => Outcome[b] = "none"
       /\ \A i \in DOMAIN raw : raw[i].print = b => Outcome[b] = raw[i].status
       /\ (\A k \in DOMAIN txns : raw[txns[k].raw].print # b) => Entries[b] = 0
       /\ \A k \in DOMAIN txns : raw[txns[k].raw].print = b => Entries[b] = 1

LEMMA ReadTheBooks == RowsInv => BooksRead
  <1> SUFFICES ASSUME RowsInv PROVE BooksRead
    OBVIOUS
  <1>1. ASSUME NEW b \in Bodies
        PROVE  /\ (\A i \in DOMAIN raw : raw[i].print # b) => Outcome[b] = "none"
               /\ \A i \in DOMAIN raw : raw[i].print = b => Outcome[b] = raw[i].status
    <2>1. CASE Recorded(b) = {}
      BY <2>1 DEF Outcome, Recorded, RowsWithPrint
    <2>2. CASE Recorded(b) # {}
      <3>1. PICK j \in DOMAIN raw : raw[j].print = b
        BY <2>2 DEF Recorded, RowsWithPrint
      <3>2. b # NoPrint
        BY IngestAssumption
      <3>3. \A i \in DOMAIN raw : raw[i].print = b => i = j
        BY <3>1, <3>2 DEF RowsInv
      <3>4. Recorded(b) = {j}
        BY <3>1, <3>3 DEF Recorded, RowsWithPrint
      <3>5. (CHOOSE i \in Recorded(b) : TRUE) = j
        BY <3>4
      <3>6. Outcome[b] = raw[j].status
        BY <2>2, <3>5 DEF Outcome
      <3> QED
        BY <3>1, <3>3, <3>6
    <2> QED
      BY <2>1, <2>2
  <1>2. ASSUME NEW b \in Bodies
        PROVE  /\ (\A k \in DOMAIN txns : raw[txns[k].raw].print # b) => Entries[b] = 0
               /\ \A k \in DOMAIN txns : raw[txns[k].raw].print = b => Entries[b] = 1
    <2> DEFINE S == {k \in DOMAIN txns : raw[txns[k].raw].print = b}
    <2>1. b # NoPrint
      BY IngestAssumption
    <2>2. \A k, l \in S : k = l
      BY <2>1 DEF RowsInv
    <2>3. Cardinality(S) = IF S = {} THEN 0 ELSE 1
      <3> HIDE DEF S
      <3> QED
        BY <2>2, CountOfOne
    <2>4. Entries[b] = Cardinality(S)
      BY DEF Entries
    <2> QED
      BY <2>3, <2>4
  <1>3. Outcome = [b \in Bodies |-> Outcome[b]] /\ Entries = [b \in Bodies |-> Entries[b]]
    BY DEF Outcome, Entries
  <1> QED
    BY <1>1, <1>2, <1>3 DEF BooksRead

(* Rows left alone leave the books alone. *)
LEMMA BooksKept == UNCHANGED dbVars => Outcome' = Outcome /\ Entries' = Entries
  BY DEF dbVars, Outcome, Entries, Recorded, RowsWithPrint

(* A handler that has a body and moves on without answering changes        *)
(* neither what it asks about nor what it was told.                        *)
Continues(r) ==
  /\ pc[r] # "idle"
  /\ \E s \in Steps \ {"idle"} : pc' = [pc EXCEPT ![r] = s]
  /\ UNCHANGED <<text, reply>>

LEMMA ContinuesSilently ==
  ASSUME TypeOK, NEW r \in Requests, Continues(r)
  PROVE  AskedAbout' = AskedAbout /\ Told' = Told
  <1>1. \A q \in Requests : InFlight(q)' = InFlight(q)
    BY DEF Continues, TypeOK, InFlight
  <1> QED
    BY <1>1 DEF Continues, AskedAbout, Told

(* A handler with a body that stops with an answer has been told it. *)
LEMMA AnswerIsTold ==
  ASSUME IInv, NEW r \in Requests, NEW s, NEW k,
         pc[r] \notin {"idle", "answered"},
         pc' = [pc EXCEPT ![r] = "answered"],
         Answer(r, s, k), text' = text
  PROVE  /\ AskedAbout' = AskedAbout
         /\ AskedAbout[r] = SMSFingerprint(text[r])
         /\ SMSFingerprint(text[r]) \in Bodies
         /\ AskedAbout[r] # Blank
         /\ Told[r] = "none"
         /\ Told' = [Told EXCEPT ![r] = s]
  <1>0. TypeOK /\ text[r] \in Texts /\ reply[r] = NoReply
    BY DEF IInv, MemoryInv
  <1>1. text[r] # Blank /\ SMSFingerprint(text[r]) \in Bodies
    BY <1>0, IngestAssumption, FingerprintIsBody
  <1>2. SMSFingerprint(text[r]) # Blank
    BY <1>1, IngestAssumption
  <1>3. \A q \in Requests : InFlight(q)' = InFlight(q)
    BY <1>0 DEF TypeOK, InFlight
  <1>4. InFlight(r)
    BY <1>1 DEF InFlight
  <1>5. /\ reply'[r].status = s
        /\ \A q \in Requests : q # r => reply'[q] = reply[q]
    BY <1>0 DEF TypeOK, Answer
  <1>6. Told[r] = "none"
    BY <1>0, <1>4 DEF Told, NoReply
  <1>7. Told' = [Told EXCEPT ![r] = s]
    BY <1>3, <1>4, <1>5 DEF Told
  <1> QED
    BY <1>1, <1>2, <1>3, <1>4, <1>6, <1>7 DEF AskedAbout

(* An answer that the books bear out is a Tell step of the ledger. *)
LEMMA TellStep ==
  ASSUME IInv, NEW r \in Requests, NEW s \in Books!Answers \ {"none"}, NEW k,
         pc[r] \notin {"idle", "answered"},
         pc' = [pc EXCEPT ![r] = "answered"],
         Answer(r, s, k), UNCHANGED <<dbVars, text>>,
         Books!Truthful(SMSFingerprint(text[r]), s)
  PROVE  Books!LedgerNext
  <1>1. Outcome' = Outcome /\ Entries' = Entries
    BY BooksKept
  <1>2. Books!Tell(r, s)
    BY <1>1, AnswerIsTold DEF Books!Tell
  <1> QED
    BY <1>2 DEF Books!LedgerNext

(* The body of a handler at work is waited for. *)
LEMMA BodyIsAwaited ==
  ASSUME IInv, NEW r \in Requests, pc[r] \notin {"idle", "answered"}
  PROVE  SMSFingerprint(text[r]) \in Bodies /\ Books!Waiting(SMSFingerprint(text[r]))
  <1>0. text[r] \in Texts /\ reply[r] = NoReply
    BY DEF IInv, MemoryInv
  <1>1. text[r] # Blank /\ SMSFingerprint(text[r]) \in Bodies
    BY <1>0, IngestAssumption, FingerprintIsBody
  <1>2. AskedAbout[r] = SMSFingerprint(text[r]) /\ Told[r] = "none"
    BY <1>0, <1>1 DEF AskedAbout, Told, InFlight, NoReply
  <1> QED
    BY <1>1, <1>2 DEF Books!Waiting

(* Commit records the body's outcome and books it, in one step. *)
LEMMA CommitRecords ==
  ASSUME IInv, BooksRead, BooksRead', NEW r \in Requests, Commit(r)
  PROVE  Books!LedgerNext
  <1> DEFINE b == SMSFingerprint(text[r])
  <1>0. TypeOK /\ RowsInv
    BY DEF IInv
  <1>1. /\ NewRow(r) \in RawRow /\ raw' = Append(raw, NewRow(r))
        /\ [raw |-> Len(raw) + 1] \in TxnRow
        /\ \A i \in DOMAIN raw : raw[i].print # b
        /\ status[r] \in {"ok", "failed", "ignored"}
    BY CommitAppends
  <1>2. /\ DOMAIN raw = 1..Len(raw) /\ DOMAIN raw' = 1..(Len(raw) + 1)
        /\ \A i \in DOMAIN raw : raw'[i] = raw[i]
        /\ raw'[Len(raw) + 1] = NewRow(r)
        /\ Len(raw) \in Nat
    BY <1>0, <1>1, AppendKeeps DEF TypeOK
  <1>3. NewRow(r).print = b /\ NewRow(r).status = status[r]
    BY DEF NewRow
  <1>4. b \in Bodies /\ Books!Waiting(b)
    BY BodyIsAwaited DEF Commit
  <1>5. Outcome[b] = "none"
    BY <1>1, <1>4 DEF BooksRead
  <1>6. Outcome' = [Outcome EXCEPT ![b] = status[r]]
    <2>1. Outcome'[b] = status[r]
      BY <1>2, <1>3, <1>4 DEF BooksRead
    <2>2. ASSUME NEW c \in Bodies, c # b PROVE Outcome'[c] = Outcome[c]
      <3>1. CASE \E i \in DOMAIN raw : raw[i].print = c
        BY <1>2, <3>1 DEF BooksRead
      <3>2. CASE \A i \in DOMAIN raw : raw[i].print # c
        <4>1. \A i \in DOMAIN raw' : raw'[i].print # c
          BY <1>2, <1>3, <2>2, <3>2
        <4> QED
          BY <3>2, <4>1 DEF BooksRead
      <3> QED
        BY <3>1, <3>2
    <2> QED
      BY <2>1, <2>2 DEF BooksRead
  <1>7. Entries' = [Entries EXCEPT ![b] = IF status[r] = "ok" THEN 1 ELSE 0]
    <2>1. /\ \A k \in DOMAIN txns : k \in DOMAIN txns' /\ txns'[k] = txns[k]
          /\ DOMAIN txns = 1..Len(txns) /\ Len(txns) \in Nat
          /\ \/ status[r] = "ok" /\ DOMAIN txns' = 1..(Len(txns) + 1)
                /\ txns'[Len(txns) + 1].raw = Len(raw) + 1
             \/ status[r] # "ok" /\ DOMAIN txns' = DOMAIN txns
      <3>1. txns \in Seq(TxnRow)
        BY <1>0 DEF TypeOK
      <3>2. \/ status[r] = "ok" /\ txns' = Append(txns, [raw |-> Len(raw) + 1])
            \/ status[r] # "ok" /\ txns' = txns
        BY CommitAppends
      <3>3. CASE status[r] = "ok" /\ txns' = Append(txns, [raw |-> Len(raw) + 1])
        BY <1>1, <3>1, <3>3, AppendKeeps
      <3>4. CASE status[r] # "ok" /\ txns' = txns
        BY <3>1, <3>4
      <3> QED
        BY <3>2, <3>3, <3>4
    <2>2. \A k \in DOMAIN txns : /\ txns[k].raw \in DOMAIN raw
                                 /\ raw'[txns'[k].raw].print = raw[txns[k].raw].print
      BY <1>0, <1>2, <2>1 DEF RowsInv
    <2>3. CASE status[r] = "ok"
      <3>1. /\ Len(txns) + 1 \in DOMAIN txns'
            /\ raw'[txns'[Len(txns) + 1].raw].print = b
        BY <1>2, <1>3, <2>1, <2>3
      <3>2. Entries'[b] = 1
        BY <1>4, <3>1 DEF BooksRead
      <3>3. ASSUME NEW c \in Bodies, c # b PROVE Entries'[c] = Entries[c]
        <4>1. CASE \E k \in DOMAIN txns : raw[txns[k].raw].print = c
          BY <2>1, <2>2, <4>1 DEF BooksRead
        <4>2. CASE \A k \in DOMAIN txns : raw[txns[k].raw].print # c
          <5>1. \A k \in DOMAIN txns' : raw'[txns'[k].raw].print # c
            BY <2>1, <2>2, <2>3, <3>1, <3>3, <4>2
          <5> QED
            BY <4>2, <5>1 DEF BooksRead
        <4> QED
          BY <4>1, <4>2
      <3> QED
        BY <2>3, <3>2, <3>3 DEF BooksRead
    <2>4. CASE status[r] # "ok"
      <3>1. ASSUME NEW c \in Bodies PROVE Entries'[c] = IF c = b THEN 0 ELSE Entries[c]
        <4>1. CASE \E k \in DOMAIN txns : raw[txns[k].raw].print = c
          <5>1. c # b
            BY <1>1, <2>2, <4>1
          <5> QED
            BY <2>1, <2>2, <4>1, <5>1 DEF BooksRead
        <4>2. CASE \A k \in DOMAIN txns : raw[txns[k].raw].print # c
          BY <2>1, <2>2, <2>4, <4>2 DEF BooksRead
        <4> QED
          BY <4>1, <4>2
      <3> QED
        BY <2>4, <3>1 DEF BooksRead
    <2> QED
      BY <2>3, <2>4
  <1>8. AskedAbout' = AskedAbout /\ Told' = Told
    <2>1. (IF "txn" \in staged THEN "rules" ELSE "reply") \in Steps \ {"idle"}
      BY DEF Steps
    <2>2. Continues(r)
      BY <2>1 DEF Commit, Continues
    <2> QED
      BY <1>0, <2>2, ContinuesSilently
  <1>9. Books!Record(b, status[r])
    BY <1>4, <1>5, <1>6, <1>7, <1>8 DEF Books!Record
  <1> QED
    BY <1>1, <1>4, <1>9 DEF Books!LedgerNext

(* The recovery's insert books a body recorded as pending. *)
LEMMA RecoveryBooks ==
  ASSUME IInv, BooksRead, BooksRead', NEW r \in Requests, RecoverInsert(r)
  PROVE  Books!LedgerNext
  <1> DEFINE b == SMSFingerprint(text[r])
  <1>0. TypeOK /\ RowsInv /\ StatusMatchesBooks /\ pc[r] = "recInsert"
    BY DEF IInv, RecoverInsert, Statement, Step
  <1>1. b \in Bodies /\ b # NoPrint /\ Books!Waiting(b)
    BY <1>0, BodyIsAwaited, IngestAssumption
  <1>2. /\ row[r] \in DOMAIN raw /\ row[r] # 0 /\ row[r] \in Nat
        /\ raw[row[r]].print = b
        /\ raw[row[r]].status \in {"pending", "ok"}
    BY <1>0 DEF IInv, MemoryInv, TypeOK
  <1>3. raw[row[r]].status = "pending"
    BY <1>0, <1>2 DEF RecoverInsert, StatusMatchesBooks
  <1>4. Outcome[b] = "pending"
    BY <1>1, <1>2, <1>3 DEF BooksRead
  <1>5. Entries[b] = 0
    <2>1. \A k \in DOMAIN txns : raw[txns[k].raw].print # b
      BY <1>0, <1>1, <1>2 DEF RowsInv, RecoverInsert, TxnsOf
    <2> QED
      BY <1>1, <2>1 DEF BooksRead
  <1>6. /\ [raw |-> row[r]] \in TxnRow
        /\ raw' = raw /\ txns' = Append(txns, [raw |-> row[r]])
    BY <1>2 DEF TxnRow, RecoverInsert
  <1>7. /\ DOMAIN txns = 1..Len(txns) /\ DOMAIN txns' = 1..(Len(txns) + 1)
        /\ \A k \in DOMAIN txns : txns'[k] = txns[k]
        /\ txns'[Len(txns) + 1].raw = row[r]
        /\ Len(txns) \in Nat
    BY <1>0, <1>6, AppendKeeps DEF TypeOK
  <1>8. Entries' = [Entries EXCEPT ![b] = 1]
    <2>1. Entries'[b] = 1
      <3>1. Len(txns) + 1 \in DOMAIN txns' /\ raw'[txns'[Len(txns) + 1].raw].print = b
        BY <1>2, <1>6, <1>7
      <3> QED
        BY <1>1, <3>1 DEF BooksRead
    <2>2. ASSUME NEW c \in Bodies, c # b PROVE Entries'[c] = Entries[c]
      <3>1. CASE \E k \in DOMAIN txns : raw[txns[k].raw].print = c
        <4>1. PICK k \in DOMAIN txns : raw[txns[k].raw].print = c
          BY <3>1
        <4>2. k \in DOMAIN txns' /\ raw'[txns'[k].raw].print = c
          BY <1>6, <1>7, <4>1
        <4> QED
          BY <4>1, <4>2 DEF BooksRead
      <3>2. CASE \A k \in DOMAIN txns : raw[txns[k].raw].print # c
        <4>1. \A k \in DOMAIN txns' : raw'[txns'[k].raw].print # c
          BY <1>2, <1>6, <1>7, <2>2, <3>2
        <4> QED
          BY <3>2, <4>1 DEF BooksRead
      <3> QED
        BY <3>1, <3>2
    <2> QED
      BY <2>1, <2>2 DEF BooksRead
  <1>9. Outcome' = Outcome
    BY <1>6 DEF Outcome, Recorded, RowsWithPrint
  <1>10. AskedAbout' = AskedAbout /\ Told' = Told
    <2>1. Continues(r)
      BY <1>0 DEF RecoverInsert, Statement, Step, Continues, Steps
    <2> QED
      BY <1>0, <2>1, ContinuesSilently
  <1>11. Books!Book(b)
    BY <1>1, <1>4, <1>5, <1>8, <1>9, <1>10 DEF Books!Book
  <1> QED
    BY <1>1, <1>11 DEF Books!LedgerNext

(* Marking a recovered row settles its body, unless another handler has    *)
(* settled it already.                                                     *)
LEMMA MarkSettles ==
  ASSUME IInv, BooksRead, BooksRead', NEW r \in Requests, RecoverMark(r)
  PROVE  Books!LedgerNext \/ UNCHANGED <<Outcome, Entries, AskedAbout, Told>>
  <1> DEFINE b == SMSFingerprint(text[r])
  <1>0. TypeOK /\ RowsInv /\ pc[r] = "recMark"
    BY DEF IInv, RecoverMark, Statement, Step
  <1>1. b \in Bodies /\ b # NoPrint /\ Books!Waiting(b)
    BY <1>0, BodyIsAwaited, IngestAssumption
  <1>2. /\ row[r] \in DOMAIN raw
        /\ raw[row[r]].print = b
        /\ raw[row[r]].status \in {"pending", "ok"}
        /\ txn[r] \in DOMAIN txns /\ txns[txn[r]].raw = row[r]
    BY <1>0 DEF IInv, MemoryInv, TypeOK
  <1>3. raw' = [raw EXCEPT ![row[r]].status = "ok"] /\ txns' = txns
    BY DEF RecoverMark
  <1>4. /\ DOMAIN raw' = DOMAIN raw
        /\ raw'[row[r]].status = "ok"
        /\ \A j \in DOMAIN raw : /\ raw'[j].print = raw[j].print
                                 /\ j # row[r] => raw'[j] = raw[j]
    <2>1. raw \in Seq(RawRow)
      BY <1>0 DEF TypeOK
    <2> QED
      BY <1>2, <1>3, <2>1, MarkKeeps
  <1>5. Outcome' = [Outcome EXCEPT ![b] = "ok"]
    <2>1. Outcome'[b] = "ok"
      BY <1>1, <1>2, <1>4 DEF BooksRead
    <2>2. ASSUME NEW c \in Bodies, c # b PROVE Outcome'[c] = Outcome[c]
      <3>1. CASE \E i \in DOMAIN raw : raw[i].print = c
        BY <1>2, <1>4, <2>2, <3>1 DEF BooksRead
      <3>2. CASE \A i \in DOMAIN raw : raw[i].print # c
        BY <1>4, <3>2 DEF BooksRead
      <3> QED
        BY <3>1, <3>2
    <2> QED
      BY <2>1, <2>2 DEF BooksRead
  <1>6. Entries' = Entries
    <2>1. \A k \in DOMAIN txns : raw'[txns[k].raw].print = raw[txns[k].raw].print
      BY <1>0, <1>4 DEF RowsInv
    <2> QED
      BY <1>3, <2>1 DEF Entries
  <1>7. AskedAbout' = AskedAbout /\ Told' = Told
    <2>1. Continues(r)
      BY <1>0 DEF RecoverMark, Statement, Step, localVars, Continues, Steps
    <2> QED
      BY <1>0, <2>1, ContinuesSilently
  <1>8. CASE raw[row[r]].status = "ok"
    <2>1. Outcome[b] = "ok"
      BY <1>1, <1>2, <1>8 DEF BooksRead
    <2>2. Outcome' = Outcome
      BY <1>5, <2>1 DEF BooksRead
    <2> QED
      BY <1>6, <1>7, <2>2
  <1>9. CASE raw[row[r]].status = "pending"
    <2>1. Outcome[b] = "pending" /\ Entries[b] = 1
      BY <1>1, <1>2, <1>9 DEF BooksRead
    <2>2. Books!Settle(b)
      BY <1>1, <1>5, <1>6, <1>7, <2>1 DEF Books!Settle
    <2> QED
      BY <1>1, <2>2 DEF Books!LedgerNext
  <1> QED
    BY <1>2, <1>8, <1>9

(* The steps that read the rows for an answer: what each says of the body  *)
(* is borne out by the books.                                              *)
LEMMA AnswersAreTruthful ==
  ASSUME IInv, ReportInv, BooksRead, NEW r \in Requests,
         \/ Respond(r) \/ RecoverRefused(r) \/ RecoverGet(r)
         \/ PersistFails(r) \/ RecoveryFails(r)
  PROVE  Books!LedgerNext
  <1> DEFINE b == SMSFingerprint(text[r])
  <1>0. TypeOK /\ RowsInv
    BY DEF IInv
  <1>1. pc[r] \notin {"idle", "answered"}
    BY DEF Respond, RecoverRefused, RecoverGet, PersistFails, RecoveryFails, Step, Statement
  <1>2. b \in Bodies
    BY <1>1, BodyIsAwaited
  <1>3. CASE Respond(r)
    <2>1. PICK i \in DOMAIN raw :
             /\ raw[i].print = b
             /\ \/ raw[i].status = status[r]
                \/ raw[i].status = "ok" /\ status[r] = "pending"
      BY <1>3 DEF Respond, Step, ReportInv, Reports, Reporting
    <2>2. Outcome[b] = raw[i].status
      BY <1>2, <2>1 DEF BooksRead
    <2>3. txn[r] # 0 => Entries[b] = 1
      BY <1>2 DEF BooksRead, IInv, MemoryInv
    <2>4. status[r] \in ParseStatus
      BY <1>0 DEF TypeOK
    <2>5. /\ ReportedStatus(r) \in Books!Answers \ {"none"}
          /\ Books!Truthful(b, ReportedStatus(r))
      BY <2>1, <2>2, <2>3, <2>4
         DEF ReportedStatus, ParseStatus, Books!Answers, Books!Truthful
    <2> QED
      BY <1>1, <1>3, <2>5, TellStep DEF Respond, Step, dbVars
  <1>4. CASE RecoverRefused(r) \/ RecoveryFails(r)
    <2>1. /\ row[r] \in DOMAIN raw
          /\ raw[row[r]].print = b
          /\ raw[row[r]].status \in {"pending", "ok"}
      BY <1>4 DEF RecoverRefused, RecoveryFails, Statement, Step, IInv, MemoryInv
    <2>2. Outcome[b] \in {"pending", "ok"}
      BY <1>2, <2>1 DEF BooksRead
    <2>3. "pending" \in Books!Answers \ {"none"} /\ Books!Truthful(b, "pending")
      BY <2>2 DEF Books!Answers, Books!Truthful
    <2> QED
      BY <1>1, <1>4, <2>3, TellStep DEF RecoverRefused, RecoveryFails, Statement, Step, dbVars
  <1>5. CASE RecoverGet(r)
    <2>1. /\ txn[r] \in DOMAIN txns
          /\ raw[txns[txn[r]].raw].print = b
      BY <1>5 DEF RecoverGet, Statement, Step, IInv, MemoryInv
    <2>2. Entries[b] = 1
      BY <1>2, <2>1 DEF BooksRead
    <2>3. "ok" \in Books!Answers \ {"none"} /\ Books!Truthful(b, "ok")
      BY <2>2 DEF Books!Answers, Books!Truthful
    <2> QED
      BY <1>1, <1>5, <2>3, TellStep DEF RecoverGet, Statement, Step, dbVars
  <1>6. CASE PersistFails(r)
    <2>1. "error" \in Books!Answers \ {"none"} /\ Books!Truthful(b, "error")
      BY DEF Books!Answers, Books!Truthful
    <2> QED
      BY <1>1, <1>6, <2>1, TellStep DEF PersistFails, dbVars
  <1> QED
    BY <1>3, <1>4, <1>5, <1>6

(* The initial databases are ledgers. *)
LEMMA LedgerStarts ==
  ASSUME Init, IInv
  PROVE  Books!LedgerInit
  <1>0. BooksRead /\ RowsInv /\ TypeOK /\ StatusMatchesBooks
    BY ReadTheBooks DEF IInv
  <1>1. \A i \in DOMAIN raw : raw[i].status \in ParseStatus
    <2>1. raw \in Seq(RawRow)
      BY <1>0 DEF TypeOK
    <2>2. \A i \in DOMAIN raw : raw[i] \in RawRow
      BY <2>1
    <2> QED
      BY <2>2 DEF RawRow
  <1>2. ASSUME NEW b \in Bodies
        PROVE  /\ Outcome[b] \in Books!Outcomes /\ Entries[b] \in {0, 1}
               /\ Outcome[b] = "ok" => Entries[b] = 1
               /\ Outcome[b] \in {"none", "ignored", "failed"} => Entries[b] = 0
    <2>1. CASE \E k \in DOMAIN txns : raw[txns[k].raw].print = b
      <3>1. PICK k \in DOMAIN txns : raw[txns[k].raw].print = b
        BY <2>1
      <3>2. txns[k].raw \in DOMAIN raw /\ raw[txns[k].raw].status \in {"ok", "pending"}
        BY <1>0, <3>1 DEF RowsInv, StatusMatchesBooks
      <3>3. Entries[b] = 1 /\ Outcome[b] \in {"ok", "pending"}
        BY <1>0, <3>1, <3>2 DEF BooksRead
      <3> QED
        BY <3>3 DEF Books!Outcomes
    <2>2. CASE \A k \in DOMAIN txns : raw[txns[k].raw].print # b
      <3>1. Entries[b] = 0
        BY <1>0, <2>2 DEF BooksRead
      <3>2. \A i \in DOMAIN raw : raw[i].print = b => raw[i].status # "ok"
        BY <1>0, <2>2 DEF StatusMatchesBooks, TxnsOf
      <3>3. Outcome[b] \in Books!Outcomes \ {"ok"}
        <4>1. CASE \E i \in DOMAIN raw : raw[i].print = b
          BY <1>0, <1>1, <3>2, <4>1 DEF BooksRead, ParseStatus, Books!Outcomes
        <4>2. CASE \A i \in DOMAIN raw : raw[i].print # b
          BY <1>0, <4>2 DEF BooksRead, Books!Outcomes
        <4> QED
          BY <4>1, <4>2
      <3> QED
        BY <3>1, <3>3 DEF Books!Outcomes
    <2> QED
      BY <2>1, <2>2
  <1>3. Outcome \in [Bodies -> Books!Outcomes] /\ Entries \in [Bodies -> {0, 1}]
    BY <1>0, <1>2 DEF BooksRead
  <1>4. AskedAbout = [r \in Requests |-> Blank] /\ Told = [r \in Requests |-> "none"]
    BY DEF Init, AskedAbout, Told, InFlight
  <1> QED
    BY <1>2, <1>3, <1>4 DEF Books!LedgerInit

(* Every step of the handlers is a step of the ledger or none at all. *)
LEMMA LedgerStep ==
  ASSUME IInv, IInv', ReportInv, [Next]_vars
  PROVE  Books!LedgerNext \/ UNCHANGED <<Outcome, Entries, AskedAbout, Told>>
  <1> DEFINE Silent == UNCHANGED <<Outcome, Entries, AskedAbout, Told>>
  <1>0. TypeOK
    BY DEF IInv
  <1>1. BooksRead /\ BooksRead'
    <2>1. RowsInv /\ RowsInv'
      BY DEF IInv
    <2>2. (RowsInv => BooksRead)'
      BY ReadTheBooks, PTL
    <2> QED
      BY <2>1, <2>2, ReadTheBooks
  <1>2. ASSUME NEW r \in Requests, NEW t \in Texts, Submit(r, t) PROVE Books!LedgerNext
    <2>1. t # Blank /\ SMSFingerprint(t) \in Bodies
      BY IngestAssumption, FingerprintIsBody
    <2>2. AskedAbout[r] = Blank
      BY <1>2 DEF Submit, Step, AskedAbout, InFlight
    <2>3. \A q \in Requests : q # r => /\ AskedAbout'[q] = AskedAbout[q]
                                       /\ Told'[q] = Told[q]
      BY <1>0, <1>2 DEF Submit, Step, TypeOK, AskedAbout, Told, InFlight
    <2>4. AskedAbout'[r] = SMSFingerprint(t)
      BY <1>0, <1>2, <2>1 DEF Submit, Step, TypeOK, AskedAbout, InFlight
    <2>5. Told'[r] = "none" /\ Told[r] = "none"
      BY <1>0, <1>2 DEF Submit, Step, TypeOK, Told, InFlight, IInv, MemoryInv, NoReply
    <2>6. AskedAbout' = [AskedAbout EXCEPT ![r] = SMSFingerprint(t)]
      BY <2>3, <2>4 DEF AskedAbout
    <2>7. Told' = Told
      BY <2>3, <2>5 DEF Told
    <2>8. Books!Ask(r, SMSFingerprint(t))
      BY <1>2, <2>2, <2>6, <2>7, BooksKept DEF Books!Ask, Submit
    <2> QED
      BY <2>1, <2>8 DEF Books!LedgerNext
  <1>3. ASSUME NEW r \in Requests, SubmitBlank(r) PROVE Silent
    <2>1. /\ \A q \in Requests : InFlight(q)' = InFlight(q)
          /\ ~ InFlight(r)
      BY <1>0, <1>3 DEF SubmitBlank, Step, TypeOK, InFlight
    <2>2. \A q \in Requests : q # r => text'[q] = text[q] /\ reply'[q] = reply[q]
      BY <1>0, <1>3 DEF SubmitBlank, Answer, TypeOK
    <2>3. AskedAbout' = AskedAbout /\ Told' = Told
      BY <2>1, <2>2 DEF AskedAbout, Told
    <2> QED
      BY <1>3, <2>3, BooksKept DEF SubmitBlank
  <1>4. ASSUME NEW r \in Requests,
               \/ BeginTx(r) \/ InsertRaw(r) \/ FindDuplicate(r) \/ ReadTxn(r)
               \/ CommitDuplicate(r) \/ InsertTxn(r) \/ ApplyRules(r)
               \/ GetTransaction(r) \/ StartRecovery(r) \/ RecoverRules(r)
               \/ IgnoredFailure(r)
        PROVE  Silent
    <2>1. Continues(r)
      <3>1. pc[r] # "idle" /\ UNCHANGED <<text, reply>>
        BY <1>4
           DEF BeginTx, InsertRaw, FindDuplicate, ReadTxn, CommitDuplicate, InsertTxn,
               ApplyRules, GetTransaction, StartRecovery, RecoverRules, IgnoredFailure,
               Step, Statement, localVars
      <3>2. \E s \in Steps \ {"idle"} : pc' = [pc EXCEPT ![r] = s]
        <4>1. /\ (IF status[r] = "ok" THEN "insertTxn" ELSE "commit") \in Steps \ {"idle"}
              /\ (IF txn[r] # 0 THEN "get" ELSE "reply") \in Steps \ {"idle"}
              /\ {"insertRaw", "readTxn", "commitDup", "commit", "get", "reply",
                  "recInsert", "recRules", "recGet"} \subseteq Steps \ {"idle"}
          BY DEF Steps, TxSteps
        <4> QED
          BY <1>4, <4>1
             DEF BeginTx, InsertRaw, FindDuplicate, ReadTxn, CommitDuplicate, InsertTxn,
                 ApplyRules, GetTransaction, StartRecovery, RecoverRules, IgnoredFailure,
                 Step, Statement
      <3> QED
        BY <3>1, <3>2 DEF Continues
    <2>2. UNCHANGED dbVars
      BY <1>4
         DEF BeginTx, InsertRaw, FindDuplicate, ReadTxn, CommitDuplicate, InsertTxn,
             ApplyRules, GetTransaction, StartRecovery, RecoverRules, IgnoredFailure
    <2> QED
      BY <1>0, <2>1, <2>2, BooksKept, ContinuesSilently
  <1>5. ASSUME NEW r \in Requests, Commit(r) PROVE Books!LedgerNext
    BY <1>1, <1>5, CommitRecords
  <1>6. ASSUME NEW r \in Requests, RecoverInsert(r) PROVE Books!LedgerNext
    BY <1>1, <1>6, RecoveryBooks
  <1>7. ASSUME NEW r \in Requests, RecoverMark(r) PROVE Books!LedgerNext \/ Silent
    BY <1>1, <1>7, MarkSettles
  <1>8. ASSUME NEW r \in Requests,
               \/ Respond(r) \/ RecoverRefused(r) \/ RecoverGet(r)
               \/ PersistFails(r) \/ RecoveryFails(r)
        PROVE  Books!LedgerNext
    BY <1>1, <1>8, AnswersAreTruthful
  <1>9. ASSUME NEW r \in Requests, Depart(r) PROVE Books!LedgerNext
    <2>1. /\ ~ InFlight(r)'
          /\ \A q \in Requests : q # r => /\ InFlight(q)' = InFlight(q)
                                          /\ text'[q] = text[q] /\ reply'[q] = reply[q]
      BY <1>0, <1>9 DEF Depart, Step, TypeOK, InFlight
    <2>2. /\ AskedAbout' = [q \in Requests |-> IF q \in {r} THEN Blank ELSE AskedAbout[q]]
          /\ Told' = [q \in Requests |-> IF q \in {r} THEN "none" ELSE Told[q]]
      BY <2>1 DEF AskedAbout, Told
    <2>3. Books!Leave({r})
      BY <1>9, <2>2, BooksKept DEF Books!Leave, Depart
    <2> QED
      BY <2>3 DEF Books!LedgerNext
  <1>10. CASE Restart
    <2>1. \A q \in Requests : ~ InFlight(q)'
      BY <1>10 DEF Restart, InFlight
    <2>2. /\ AskedAbout' = [q \in Requests |-> IF q \in Requests THEN Blank ELSE AskedAbout[q]]
          /\ Told' = [q \in Requests |-> IF q \in Requests THEN "none" ELSE Told[q]]
      BY <2>1 DEF AskedAbout, Told
    <2>3. Books!Leave(Requests)
      BY <1>10, <2>2, BooksKept DEF Books!Leave, Restart
    <2> QED
      BY <2>3 DEF Books!LedgerNext
  <1>11. CASE UNCHANGED vars
    <2>1. \A q \in Requests : InFlight(q)' = InFlight(q)
      BY <1>11 DEF vars, InFlight
    <2>2. AskedAbout' = AskedAbout /\ Told' = Told
      BY <1>11, <2>1 DEF vars, AskedAbout, Told
    <2> QED
      BY <1>11, <2>2, BooksKept DEF vars, dbVars
  <1> QED
    BY <1>2, <1>3, <1>4, <1>5, <1>6, <1>7, <1>8, <1>9, <1>10, <1>11
       DEF Next, Handler, Persist, Recover, Fault

(* The concurrent handlers, with their statements, failures and restarts,  *)
(* implement the ledger: one outcome and at most one booking per body,     *)
(* made only while somebody asks for it, and truthful answers - for any    *)
(* number of handlers and any legacy database.                             *)
THEOREM LedgerImplemented == Spec => ImplementsLedger
  <1>1. Init => Books!LedgerInit /\ ReportInv
    BY IInvInit, LedgerStarts DEF Init, ReportInv, Reports, Reporting
  <1>2. IInv /\ ReportInv /\ [Next]_vars => ReportInv'
    BY ReportStep
  <1>3. IInv /\ IInv' /\ ReportInv /\ [Next]_vars => [Books!LedgerNext]_Books!ledgerVars
    BY LedgerStep DEF Books!ledgerVars
  <1> QED
    BY <1>1, <1>2, <1>3, Inductive, PTL DEF Spec, ImplementsLedger, Books!LedgerSpec

=============================================================================
