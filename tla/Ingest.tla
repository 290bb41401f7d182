------------------------------- MODULE Ingest -------------------------------
(***************************************************************************)
(* SMS ingestion: service.IngestSMS over store.PersistIngestResult, run by *)
(* the concurrent request handlers of one server against one SQLite        *)
(* database reached through a single pooled connection.                    *)
(*                                                                         *)
(* Every database statement is a step of its own.  A statement outside a   *)
(* transaction waits for the connection; a transaction keeps it from       *)
(* BeginTx to Commit or Rollback, and its rows are visible only after      *)
(* Commit.  Any statement may fail (a cancelled request context, a busy    *)
(* database, a full disk) and the server may be restarted at any point.    *)
(*                                                                         *)
(* Left out: the labels ApplyRulesToTxn writes (module Labels), and what a *)
(* row holds beyond its status, text and fingerprint.                      *)
(***************************************************************************)
EXTENDS Naturals, Sequences, FiniteSets

CONSTANTS
  Requests,    \* request slots: the handlers that may run at the same time
  Bodies,      \* SMS bodies after normalisation
  FormsOf,     \* FormsOf[b]: ways b is written (line endings, blanks around it)
  Verdict,     \* Verdict[t]: what parser.Parse decides about text t
  LegacyRaw,   \* raw_sms rows written by earlier versions of the program
  LegacyTxns,  \* transactions written by earlier versions
  NoPrint,     \* the empty fingerprint of rows older than the column
  Blank,       \* a submission with nothing left after trimming
  Free         \* conn when nobody holds the connection

VARIABLES
  raw,      \* raw_sms, committed rows; the id of a row is its position
  txns,     \* transactions, committed rows; the id is the position
  conn,     \* who holds the connection inside a transaction
  staged,   \* statements the open transaction has executed
  pc,       \* pc[r]: the next step of handler r
  text,     \* text[r]: the body handler r was given
  row,      \* row[r]: raw_sms id of the duplicate found, 0 for a new body
  status,   \* status[r]: the status r will report
  txn,      \* txn[r]: the transaction id r will report, 0 for nil
  reply     \* reply[r]: the response once pc[r] = "answered"

dbVars    == <<raw, txns>>
localVars == <<text, row, status, txn, reply>>
vars == <<raw, txns, conn, staged, pc, text, row, status, txn, reply>>

----------------------------------------------------------------------------

Texts == UNION {{b} \X FormsOf[b] : b \in Bodies}

ParseStatus == {"pending", "ok", "failed", "ignored"}

(* SHA-256 of the trimmed body with CRLF and CR turned into LF: it forgets *)
(* the form and keeps the body.                                            *)
SMSFingerprint(t) == t[1]

RawRow == [text : Texts, print : Bodies \cup {NoPrint}, status : ParseStatus]

TxnRow == [raw : Nat \ {0}]

(* UNIQUE(fingerprint) WHERE fingerprint != ''                             *)
NoFingerprintIndex(p) == {}
RowsWithPrint(p) == {i \in DOMAIN raw : raw[i].print = p}

(* SELECT id FROM transactions WHERE raw_sms_id = i; UNIQUE(raw_sms_id)    *)
TxnsOf(i) == {k \in DOMAIN txns : txns[k].raw = i}

TxnIdOf(i) == IF TxnsOf(i) = {} THEN 0 ELSE CHOOSE k \in TxnsOf(i) : TRUE

NoReply == [status |-> "none", txn |-> 0, dup |-> FALSE]

Response == [status : ParseStatus \cup {"none", "error"}, txn : Nat, dup : BOOLEAN]

(* The steps at which a handler is inside its transaction. *)
TxSteps == {"insertRaw", "insertTxn", "commit", "readTxn", "commitDup"}

Steps == TxSteps \cup {"idle", "begin", "rules", "get", "reply",
                       "recInsert", "recMark", "recRules", "recGet", "answered"}

(* A statement outside a transaction, or BeginTx, gets the connection only *)
(* while no transaction is open.                                           *)
Step(r, from, to) == pc[r] = from /\ pc' = [pc EXCEPT ![r] = to]

Statement(r, from, to) == Step(r, from, to) /\ conn = Free

Answer(r, s, k) ==
  reply' = [reply EXCEPT ![r] = [status |-> s, txn |-> k, dup |-> row[r] # 0]]

----------------------------------------------------------------------------

(* The initial databases: empty, or left by the earlier two-phase version  *)
(* (which stored "pending" first) or by one without fingerprints.          *)
Init ==
  /\ raw = LegacyRaw
  /\ txns = LegacyTxns
  /\ conn = Free
  /\ staged = {}
  /\ pc = [r \in Requests |-> "idle"]
  /\ text = [r \in Requests |-> Blank]
  /\ row = [r \in Requests |-> 0]
  /\ status = [r \in Requests |-> "failed"]
  /\ txn = [r \in Requests |-> 0]
  /\ reply = [r \in Requests |-> NoReply]

(* POST /ingest: the body is parsed before the database is touched.        *)
Submit(r, t) ==
  /\ Step(r, "idle", "begin")
  /\ text' = [text EXCEPT ![r] = t]
  /\ status' = [status EXCEPT ![r] = Verdict[t]]
  /\ UNCHANGED <<dbVars, conn, staged, row, txn, reply>>

(* A body that is blank after trimming is refused before parsing.          *)
SubmitBlank(r) ==
  /\ Step(r, "idle", "answered")
  /\ text' = [text EXCEPT ![r] = Blank]
  /\ Answer(r, "error", 0)
  /\ UNCHANGED <<dbVars, conn, staged, row, status, txn>>

BeginTx(r) ==
  /\ Statement(r, "begin", "insertRaw")
  /\ conn' = r
  /\ UNCHANGED <<dbVars, staged, localVars>>

(* INSERT INTO raw_sms with the final status, for a new fingerprint.       *)
InsertRaw(r) ==
  /\ Step(r, "insertRaw", IF status[r] = "ok" THEN "insertTxn" ELSE "commit")
  /\ RowsWithPrint(SMSFingerprint(text[r])) = {}
  /\ staged' = {"raw"}
  /\ UNCHANGED <<dbVars, conn, localVars>>

FindDuplicateOverwrites(r) ==
  /\ Step(r, "insertRaw", "readTxn")
  /\ \E i \in RowsWithPrint(SMSFingerprint(text[r])) :
       /\ row' = [row EXCEPT ![r] = i]
       /\ raw' = [raw EXCEPT ![i].status = Verdict[text[r]]]
  /\ UNCHANGED <<txns, conn, staged, text, status, txn, reply>>

(* The INSERT failed on the unique index: the existing row is read in the  *)
(* same transaction.                                                       *)
FindDuplicate(r) ==
  /\ Step(r, "insertRaw", "readTxn")
  /\ \E i \in RowsWithPrint(SMSFingerprint(text[r])) :
       /\ row' = [row EXCEPT ![r] = i]
       /\ status' = [status EXCEPT ![r] = raw[i].status]
  /\ UNCHANGED <<dbVars, conn, staged, text, txn, reply>>

ReadTxn(r) ==
  /\ Step(r, "readTxn", "commitDup")
  /\ txn' = [txn EXCEPT ![r] = TxnIdOf(row[r])]
  /\ UNCHANGED <<dbVars, conn, staged, text, row, status, reply>>

CommitKeepsConn(r) ==
  /\ Step(r, "commitDup", IF txn[r] # 0 THEN "get" ELSE "reply")
  /\ UNCHANGED <<dbVars, conn, staged, localVars>>

(* Commit frees the connection before GetTransaction asks for it.          *)
CommitDuplicate(r) ==
  /\ Step(r, "commitDup", IF txn[r] # 0 THEN "get" ELSE "reply")
  /\ conn' = Free
  /\ UNCHANGED <<dbVars, staged, localVars>>

InsertTxn(r) ==
  /\ Step(r, "insertTxn", "commit")
  /\ staged' = staged \cup {"txn"}
  /\ UNCHANGED <<dbVars, conn, localVars>>

CommitPending(r) ==
  /\ pc[r] = "commit"
  /\ raw' = Append(raw, [text |-> text[r], print |-> SMSFingerprint(text[r]),
                         status |-> "pending"])
  /\ txns' = IF "txn" \in staged THEN Append(txns, [raw |-> Len(raw) + 1]) ELSE txns
  /\ txn' = [txn EXCEPT ![r] = IF "txn" \in staged THEN Len(txns) + 1 ELSE 0]
  /\ pc' = [pc EXCEPT ![r] = IF "txn" \in staged THEN "rules" ELSE "reply"]
  /\ conn' = Free
  /\ staged' = {}
  /\ UNCHANGED <<text, row, status, reply>>

(* Commit: the raw row and its transaction appear together.                *)
Commit(r) ==
  /\ pc[r] = "commit"
  /\ raw' = Append(raw, [text |-> text[r], print |-> SMSFingerprint(text[r]),
                         status |-> status[r]])
  /\ txns' = IF "txn" \in staged THEN Append(txns, [raw |-> Len(raw) + 1]) ELSE txns
  /\ txn' = [txn EXCEPT ![r] = IF "txn" \in staged THEN Len(txns) + 1 ELSE 0]
  /\ pc' = [pc EXCEPT ![r] = IF "txn" \in staged THEN "rules" ELSE "reply"]
  /\ conn' = Free
  /\ staged' = {}
  /\ UNCHANGED <<text, row, status, reply>>

(* ApplyRulesToTxn and GetTransaction, after the commit.                   *)
ApplyRules(r) ==
  /\ Statement(r, "rules", "get")
  /\ UNCHANGED <<dbVars, conn, staged, localVars>>

GetTransaction(r) ==
  /\ Statement(r, "get", "reply")
  /\ UNCHANGED <<dbVars, conn, staged, localVars>>

(* A pending duplicate whose resubmitted text now parses, with no          *)
(* transaction yet, is recovered.                                          *)
Recoverable(r) ==
  row[r] # 0 /\ status[r] = "pending" /\ Verdict[text[r]] = "ok" /\ txn[r] = 0

PendingAsOk(r) == IF status[r] = "pending" THEN "ok" ELSE status[r]

(* "ok" without a transaction is reported as failed. *)
ReportedStatus(r) ==
  IF status[r] = "ok" /\ txn[r] = 0 THEN "failed" ELSE status[r]

Respond(r) ==
  /\ Step(r, "reply", "answered")
  /\ ~ Recoverable(r)
  /\ Answer(r, ReportedStatus(r), txn[r])
  /\ UNCHANGED <<dbVars, conn, staged, text, row, status, txn>>

StartRecovery(r) ==
  /\ Step(r, "reply", "recInsert")
  /\ Recoverable(r)
  /\ UNCHANGED <<dbVars, conn, staged, localVars>>

RecoverInsertUnchecked(r) ==
  /\ Statement(r, "recInsert", "recMark")
  /\ txns' = Append(txns, [raw |-> row[r]])
  /\ txn' = [txn EXCEPT ![r] = Len(txns) + 1]
  /\ UNCHANGED <<raw, conn, staged, text, row, status, reply>>

(* InsertTransaction outside any transaction: visible at once.             *)
RecoverInsert(r) ==
  /\ Statement(r, "recInsert", "recMark")
  /\ TxnsOf(row[r]) = {}
  /\ txns' = Append(txns, [raw |-> row[r]])
  /\ txn' = [txn EXCEPT ![r] = Len(txns) + 1]
  /\ UNCHANGED <<raw, conn, staged, text, row, status, reply>>

(* Another handler inserted it first: UNIQUE(raw_sms_id) refuses.          *)
RecoverRefused(r) ==
  /\ Statement(r, "recInsert", "answered")
  /\ TxnsOf(row[r]) # {}
  /\ Answer(r, "pending", 0)
  /\ UNCHANGED <<dbVars, conn, staged, text, row, status, txn>>

RecoverMark(r) ==
  /\ Statement(r, "recMark", "recRules")
  /\ raw' = [raw EXCEPT ![row[r]].status = "ok"]
  /\ UNCHANGED <<txns, conn, staged, localVars>>

RecoverRules(r) ==
  /\ Statement(r, "recRules", "recGet")
  /\ UNCHANGED <<dbVars, conn, staged, localVars>>

RecoverGet(r) ==
  /\ Statement(r, "recGet", "answered")
  /\ Answer(r, "ok", txn[r])
  /\ UNCHANGED <<dbVars, conn, staged, text, row, status, txn>>

(* The response is written and the handler is gone. *)
Depart(r) ==
  /\ Step(r, "answered", "idle")
  /\ text' = [text EXCEPT ![r] = Blank]
  /\ row' = [row EXCEPT ![r] = 0]
  /\ status' = [status EXCEPT ![r] = "failed"]
  /\ txn' = [txn EXCEPT ![r] = 0]
  /\ reply' = [reply EXCEPT ![r] = NoReply]
  /\ UNCHANGED <<dbVars, conn, staged>>

----------------------------------------------------------------------------
(* Failed statements. *)

(* BeginTx or a statement of the transaction fails: the deferred Rollback  *)
(* drops what was staged and the handler answers 500.                      *)
PersistFails(r) ==
  /\ pc[r] \in {"begin", "insertRaw", "insertTxn", "commit", "commitDup"}
  /\ pc' = [pc EXCEPT ![r] = "answered"]
  /\ conn' = IF conn = r THEN Free ELSE conn
  /\ staged' = IF conn = r THEN {} ELSE staged
  /\ Answer(r, "error", 0)
  /\ UNCHANGED <<dbVars, text, row, status, txn>>

(* Errors the code ignores: the transaction id of a duplicate, the rules,  *)
(* reading the labelled row back, marking a recovered row.                 *)
IgnoredFailure(r) ==
  /\ \/ Step(r, "readTxn", "commitDup") /\ UNCHANGED txn
     \/ Step(r, "rules", "get")         /\ UNCHANGED txn
     \/ Step(r, "recMark", "recRules")  /\ UNCHANGED txn
     \/ Step(r, "recRules", "recGet")   /\ UNCHANGED txn
     \/ /\ Step(r, "get", "reply")      \* only a duplicate loses its transaction
        /\ txn' = [txn EXCEPT ![r] = IF row[r] = 0 THEN @ ELSE 0]
  /\ UNCHANGED <<dbVars, conn, staged, text, row, status, reply>>

(* The recovery stops with an honest "pending".                            *)
RecoveryFails(r) ==
  /\ pc[r] \in {"recInsert", "recGet"}
  /\ pc' = [pc EXCEPT ![r] = "answered"]
  /\ Answer(r, "pending", 0)
  /\ UNCHANGED <<dbVars, conn, staged, text, row, status, txn>>

(* The server stops and starts again: handlers and the open transaction    *)
(* are gone, committed rows stay.                                          *)
Restart ==
  /\ \E r \in Requests : pc[r] # "idle"
  /\ conn' = Free
  /\ staged' = {}
  /\ pc' = [r \in Requests |-> "idle"]
  /\ text' = [r \in Requests |-> Blank]
  /\ row' = [r \in Requests |-> 0]
  /\ status' = [r \in Requests |-> "failed"]
  /\ txn' = [r \in Requests |-> 0]
  /\ reply' = [r \in Requests |-> NoReply]
  /\ UNCHANGED dbVars

----------------------------------------------------------------------------

Persist(r) ==
  \/ BeginTx(r)
  \/ InsertRaw(r)
  \/ FindDuplicate(r)
  \/ ReadTxn(r)
  \/ CommitDuplicate(r)
  \/ InsertTxn(r)
  \/ Commit(r)

Recover(r) ==
  \/ StartRecovery(r)
  \/ RecoverInsert(r)
  \/ RecoverRefused(r)
  \/ RecoverMark(r)
  \/ RecoverRules(r)
  \/ RecoverGet(r)

Handler(r) ==
  \/ Persist(r)
  \/ Recover(r)
  \/ ApplyRules(r)
  \/ GetTransaction(r)
  \/ Respond(r)

Fault(r) == PersistFails(r) \/ IgnoredFailure(r) \/ RecoveryFails(r)

Next ==
  \/ \E r \in Requests :
       \/ \E t \in Texts : Submit(r, t)
       \/ SubmitBlank(r)
       \/ Handler(r)
       \/ Depart(r)
       \/ Fault(r)
  \/ Restart

Spec == Init /\ [][Next]_vars

(* A handler that can take its next step eventually does: goroutines are   *)
(* scheduled and a freed connection goes to a waiter.  Clients, failures   *)
(* and restarts are not assumed to happen.                                 *)
FairSpec == Spec /\ \A r \in Requests : SF_vars(Handler(r))

----------------------------------------------------------------------------
(* Assumptions and properties *)

(* The databases earlier versions can have left: the two unique indexes    *)
(* hold (startup refuses a database where they cannot be created), every   *)
(* transaction has its row, a row is "ok" only with a transaction and has  *)
(* one only when "ok" or still "pending".                                  *)
LegacyWellFormed ==
  /\ LegacyRaw \in Seq(RawRow)
  /\ LegacyTxns \in Seq(TxnRow)
  /\ \A i, j \in DOMAIN LegacyRaw :
       LegacyRaw[i].print = LegacyRaw[j].print /\ LegacyRaw[i].print # NoPrint => i = j
  /\ \A i \in DOMAIN LegacyRaw :
       LegacyRaw[i].print \in {NoPrint, SMSFingerprint(LegacyRaw[i].text)}
  /\ \A k, l \in DOMAIN LegacyTxns : LegacyTxns[k].raw = LegacyTxns[l].raw => k = l
  /\ \A k \in DOMAIN LegacyTxns :
       /\ LegacyTxns[k].raw \in DOMAIN LegacyRaw
       /\ LegacyRaw[LegacyTxns[k].raw].status \in {"ok", "pending"}
  /\ \A i \in DOMAIN LegacyRaw :
       LegacyRaw[i].status = "ok" => \E k \in DOMAIN LegacyTxns : LegacyTxns[k].raw = i

(* No row is older than the fingerprint column. *)
LegacyFingerprinted == \A i \in DOMAIN LegacyRaw : LegacyRaw[i].print # NoPrint

ASSUME IngestAssumption ==
  /\ Verdict \in [Texts -> {"ok", "failed", "ignored"}]
  /\ LegacyWellFormed
  /\ NoPrint \notin Bodies
  /\ Blank \notin Bodies \cup Texts
  /\ Free \notin Requests

TypeOK ==
  /\ raw \in Seq(RawRow)
  /\ txns \in Seq(TxnRow)
  /\ conn \in Requests \cup {Free}
  /\ staged \in SUBSET {"raw", "txn"}
  /\ pc \in [Requests -> Steps]
  /\ text \in [Requests -> Texts \cup {Blank}]
  /\ row \in [Requests -> Nat]
  /\ status \in [Requests -> ParseStatus]
  /\ txn \in [Requests -> Nat]
  /\ reply \in [Requests -> Response]

BodyOf(i) == SMSFingerprint(raw[i].text)

(* README: "相同短信正文重复提交会去重（重试安全），不会重复计账" - however often  *)
(* and however concurrently a body is submitted, and whatever fails in     *)
(* between, at most one transaction is booked for it.                      *)
OncePerBody ==
  \A k, l \in DOMAIN txns : BodyOf(txns[k].raw) = BodyOf(txns[l].raw) => k = l

(* A raw row says "ok" exactly when its money is booked; a failed or       *)
(* ignored message never has a transaction; only a row that was pending    *)
(* before this version may still be pending (PersistIngestResult: "Never   *)
(* leaves permanent pending for new inserts").                             *)
StatusMatchesBooks ==
  /\ \A i \in DOMAIN raw : raw[i].status = "ok" => TxnsOf(i) # {}
  /\ \A k \in DOMAIN txns : raw[txns[k].raw].status \in {"ok", "pending"}
  /\ \A i \in DOMAIN raw : raw[i].status = "pending" => i <= Len(LegacyRaw)

(* A handler that answers "ok" reports a booked transaction of the body it *)
(* was given, first submission or duplicate (service.go: "never fake ok    *)
(* without txn").                                                          *)
TruthfulReply ==
  \A r \in Requests :
    reply[r].status = "ok" =>
      /\ reply[r].txn \in DOMAIN txns
      /\ BodyOf(txns[reply[r].txn].raw) = SMSFingerprint(text[r])

(* Committed history is append-only: rows and transactions never vanish or *)
(* change owner, and a status changes only from "pending" to "ok".         *)
HistoryKept ==
  [][ /\ \A i \in DOMAIN raw :
           /\ i \in DOMAIN raw'
           /\ raw'[i].text = raw[i].text /\ raw'[i].print = raw[i].print
           /\ raw'[i].status # raw[i].status => raw[i].status = "pending" /\ raw'[i].status = "ok"
      /\ \A k \in DOMAIN txns : k \in DOMAIN txns' /\ txns'[k] = txns[k] ]_dbVars

(* Every submission is answered (unless a restart ends it): no handler is  *)
(* left waiting for a connection that its own or another transaction holds.*)
EverySubmissionAnswered ==
  \A r \in Requests :
    pc[r] \notin {"idle", "answered"} ~> pc[r] \in {"idle", "answered"}

(* A row that has a transaction but is still "pending" is only ever the    *)
(* work in progress of the handler about to mark it.                       *)
NoStrandedPending ==
  \A i \in DOMAIN raw :
    raw[i].status = "pending" /\ TxnsOf(i) # {} =>
      \E r \in Requests : row[r] = i /\ pc[r] = "recMark"

----------------------------------------------------------------------------
(* The inductive invariant *)

(* The connection is held exactly by the handler inside a transaction, and *)
(* what it has staged is determined by how far it is.  While it is held    *)
(* nobody else can commit, so the fingerprint found free stays free.       *)
TransactionInv ==
  /\ \A r \in Requests : conn = r <=> pc[r] \in TxSteps
  /\ conn = Free => staged = {}
  /\ \A r \in Requests :
       /\ pc[r] \in {"insertRaw", "readTxn", "commitDup"} => staged = {}
       /\ pc[r] = "insertTxn" => staged = {"raw"} /\ status[r] = "ok"
       /\ pc[r] = "commit" =>
            staged = IF status[r] = "ok" THEN {"raw", "txn"} ELSE {"raw"}
       /\ pc[r] \in {"insertTxn", "commit"} =>
            RowsWithPrint(SMSFingerprint(text[r])) = {}

(* What a handler remembers about rows is true of the committed rows: they *)
(* are never taken back, and a status only moves from pending to ok.       *)
MemoryInv ==
  \A r \in Requests :
    /\ pc[r] = "idle" => row[r] = 0 /\ txn[r] = 0 /\ reply[r] = NoReply
    /\ pc[r] \notin {"idle", "answered"} => text[r] \in Texts /\ reply[r] = NoReply
    /\ pc[r] \in {"begin", "insertRaw", "insertTxn", "commit"} =>
         row[r] = 0 /\ txn[r] = 0 /\ status[r] = Verdict[text[r]]
    /\ row[r] # 0 => /\ text[r] \in Texts
                     /\ row[r] \in DOMAIN raw
                     /\ raw[row[r]].print = SMSFingerprint(text[r])
                     /\ status[r] = "pending" => raw[row[r]].status \in {"pending", "ok"}
    /\ txn[r] # 0 => /\ text[r] \in Texts
                     /\ txn[r] \in DOMAIN txns
                     /\ raw[txns[txn[r]].raw].print = SMSFingerprint(text[r])
    /\ pc[r] \in {"readTxn", "commitDup"} => row[r] # 0
    /\ pc[r] \in {"recInsert", "recMark", "recRules", "recGet"} =>
         row[r] # 0 /\ status[r] = "pending"
    /\ pc[r] = "recMark" => txn[r] # 0 /\ txns[txn[r]].raw = row[r]
    /\ pc[r] \in {"recRules", "recGet"} => txn[r] # 0

(* The committed rows: the two unique indexes and the foreign key.         *)
RowsInv ==
  /\ \A i \in DOMAIN raw : raw[i].print \in {NoPrint, SMSFingerprint(raw[i].text)}
  /\ \A i, j \in DOMAIN raw : raw[i].print = raw[j].print /\ raw[i].print # NoPrint => i = j
  /\ \A k \in DOMAIN txns : txns[k].raw \in DOMAIN raw
  /\ \A k, l \in DOMAIN txns : txns[k].raw = txns[l].raw => k = l
  /\ LegacyFingerprinted => \A i \in DOMAIN raw : raw[i].print # NoPrint

(* "ok" is reported only with a transaction of the reported body. *)
ReplyInv ==
  \A r \in Requests :
    reply[r].status = "ok" => /\ text[r] \in Texts
                              /\ reply[r].txn \in DOMAIN txns
                              /\ raw[txns[reply[r].txn].raw].print = SMSFingerprint(text[r])

IInv ==
  /\ TypeOK
  /\ TransactionInv
  /\ MemoryInv
  /\ RowsInv
  /\ StatusMatchesBooks
  /\ ReplyInv

----------------------------------------------------------------------------
(* The abstract ledger *)

Recorded(b) == RowsWithPrint(b)

Outcome ==
  [b \in Bodies |-> IF Recorded(b) = {} THEN "none"
                    ELSE raw[CHOOSE i \in Recorded(b) : TRUE].status]

Entries ==
  [b \in Bodies |-> Cardinality({k \in DOMAIN txns : raw[txns[k].raw].print = b})]

InFlight(r) == pc[r] # "idle" /\ text[r] # Blank

AskedAbout ==
  [r \in Requests |-> IF InFlight(r) THEN SMSFingerprint(text[r]) ELSE Blank]

Told == [r \in Requests |-> IF InFlight(r) THEN reply[r].status ELSE "none"]

Books == INSTANCE Ledger WITH
  Nobody  <- Blank,
  outcome <- Outcome,
  entries <- Entries,
  asked   <- AskedAbout,
  answer  <- Told

(* The handlers, statements and failures above implement the ledger: one   *)
(* outcome and at most one booking per body, made only while somebody asks,*)
(* and truthful answers.                                                   *)
ImplementsLedger == Books!LedgerSpec

=============================================================================
