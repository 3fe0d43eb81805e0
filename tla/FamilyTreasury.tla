---------------------------- MODULE FamilyTreasury ----------------------------
(****************************************************************************)
(* Linux_12_ThreadSynthetic: an account guarded by a mutex, on whose        *)
(* condition variable the shoppers wait for money; a ledger guarded by a    *)
(* read-write lock; the earner's status guarded by a spin lock.             *)
(*                                                                          *)
(* A change of the balance is a read and a write, so that the mutex does    *)
(* real work.  Every entry is put together in one global stream before it   *)
(* is added to the ledger; an entry is what was in the stream, a sequence   *)
(* of signed amounts.  The ledger keeps the entries some auditor has not    *)
(* read; of those all have read only the sum is kept.                       *)
(*                                                                          *)
(* As in HaremPalace, what is usually called Init or Next bears the name of *)
(* the program, so that one module can extend this one and others.          *)
(****************************************************************************)
EXTENDS Integers, Sequences, FiniteSetsExt, SequencesExt

CONSTANTS Wives,      (* threads of wife_shopping_routine                   *)
          Husband,    (* the thread of husband_labor_routine                *)
          Auditors,   (* threads of cfo_audit_routine                       *)
          Incomes,    (* amounts that are paid in                           *)
          Prices,     (* amounts that are spent                             *)
          Nobody,
          MaxBalance, (* bound: nothing is paid in beyond this              *)
          MaxUnread   (* bound: entries not yet read by every auditor       *)

\* With the bound on the balance reached, every price can be paid.
ASSUME TreasuryAssumption ==
    /\ Incomes \subseteq Nat \ {0} /\ Prices \subseteq Nat \ {0}
    /\ MaxBalance \in Nat /\ MaxUnread \in Nat \ {0}
    /\ \A i \in Incomes, p \in Prices : i + p <= MaxBalance + 1
    /\ Husband \notin Wives /\ Nobody \notin Wives \cup {Husband}
    /\ Auditors \cap (Wives \cup {Husband}) = {}

VARIABLES balance,
          mutex,      (* owner of the account's mutex                       *)
          status,     (* the earner's status                                *)
          log_stream, (* g_log_stream: the amounts written to it            *)
          logs,       (* entries some auditor has not read                  *)
          audited,    (* sum of the entries all auditors have read          *)
          writers,    (* threads that hold rwlock for writing               *)
          readers,    (* threads that hold rwlock for reading               *)
          log_index,  (* log_index[a]: entries of logs auditor a has read   *)
          tpc,        (* where a thread stands                              *)
          amount,     (* what the thread's transaction adds to the balance  *)
          seen        (* the balance the thread read under the mutex        *)

Spenders == Wives \cup {Husband}

accountVars == <<balance, mutex, status>>
lockVars    == <<writers, readers>>
ledgerVars  == <<log_stream, logs, audited, lockVars, log_index>>
ownVars     == <<amount, seen>>

treasuryVars == <<accountVars, ledgerVars, ownVars, tpc>>

\* FamilyAccountRAII's constructor, and main has created the threads.
TreasuryInit == /\ balance = 0 /\ mutex = Nobody /\ status = "IDLE"
                /\ log_stream = <<>> /\ logs = <<>> /\ audited = 0
                /\ writers = {} /\ readers = {}
                /\ log_index = [a \in Auditors |-> 0]
                /\ tpc = [t \in Spenders \cup Auditors |-> "begin"]
                /\ amount = [t \in Spenders |-> 0]
                /\ seen = [t \in Spenders |-> 0]

From(t, at, to) == tpc[t] = at /\ tpc' = [tpc EXCEPT ![t] = to]

-----------------------------------------------------------------------------
(* Every transaction ends in the ledger.                                    *)

\* Mutant: the read lock is taken for the write lock.
WriteLockShared(t) == /\ From(t, "log", "push")
                      /\ Len(logs) < MaxUnread
                      /\ writers' = writers \cup {t}
                      /\ log_stream' = Append(log_stream, amount[t])
                      /\ UNCHANGED <<accountVars, logs, audited, readers, log_index, ownVars>>

\* wrlock, and the line is written to the stream ...
WriteLock(t) == /\ From(t, "log", "push")
                /\ writers = {} /\ readers = {}
                /\ Len(logs) < MaxUnread
                /\ writers' = writers \cup {t}
                /\ log_stream' = Append(log_stream, amount[t])
                /\ UNCHANGED <<accountVars, logs, audited, readers, log_index, ownVars>>

\* ... its contents become an entry, and it is emptied.
PushLog(t) == /\ From(t, "push", IF t = Husband THEN "rest" ELSE "begin")
              /\ logs' = Append(logs, log_stream)
              /\ log_stream' = <<>>
              /\ writers' = writers \ {t}
              /\ UNCHANGED <<accountVars, audited, readers, log_index, ownVars>>

\* The second half of a change of the balance, and the mutex is released.
WriteBalance(t) == /\ From(t, "write", "log")
                   /\ balance' = seen[t] + amount[t]
                   /\ mutex' = Nobody
                   /\ UNCHANGED <<status, ledgerVars, ownVars>>

-----------------------------------------------------------------------------
(* husband_labor_routine                                                    *)

StartWork == /\ From(Husband, "begin", "lock")
             /\ status' = "WORKING"
             /\ UNCHANGED <<balance, mutex, ledgerVars, ownVars>>

\* Mutant: the mutex is not taken.
LockToPayNot(i) == /\ From(Husband, "lock", "write")
                   /\ balance + i <= MaxBalance
                   /\ amount' = [amount EXCEPT ![Husband] = i]
                   /\ seen' = [seen EXCEPT ![Husband] = balance]
                   /\ UNCHANGED <<accountVars, ledgerVars>>

\* One of the three ways to pay in: they differ in the amount and the wording.
LockToPay(i) == /\ From(Husband, "lock", "write")
                /\ mutex = Nobody
                /\ balance + i <= MaxBalance
                /\ mutex' = Husband
                /\ amount' = [amount EXCEPT ![Husband] = i]
                /\ seen' = [seen EXCEPT ![Husband] = balance]
                /\ UNCHANGED <<balance, status, ledgerVars>>

Rest == /\ From(Husband, "rest", "signal")
        /\ status' = "RESTING"
        /\ UNCHANGED <<balance, mutex, ledgerVars, ownVars>>

asleep == {w \in Wives : tpc[w] = "asleep"}

\* Mutant: nobody is woken.
SignalNot == /\ From(Husband, "signal", "begin")
             /\ UNCHANGED <<accountVars, ledgerVars, ownVars>>

\* pthread_cond_signal wakes one of those who wait, whichever; then he sleeps.
Signal == /\ tpc[Husband] = "signal"
          /\ \/ /\ asleep = {}
                /\ tpc' = [tpc EXCEPT ![Husband] = "begin"]
             \/ \E w \in asleep :
                  tpc' = [tpc EXCEPT ![Husband] = "begin", ![w] = "lock"]
          /\ UNCHANGED <<accountVars, ledgerVars, ownVars>>

-----------------------------------------------------------------------------
(* wife_shopping_routine                                                    *)

Wish(w, p) == /\ From(w, "begin", "lock")
              /\ amount' = [amount EXCEPT ![w] = -p]
              /\ UNCHANGED <<accountVars, ledgerVars, seen>>

\* Mutant: the balance is not tested.
LockToBuyUntested(w) == /\ From(w, "lock", "write")
                        /\ mutex = Nobody
                        /\ mutex' = w
                        /\ seen' = [seen EXCEPT ![w] = balance]
                        /\ UNCHANGED <<balance, status, ledgerVars, amount>>

\* The loop's test under the mutex: there is money ...
LockToBuy(w) == /\ From(w, "lock", "write")
                /\ mutex = Nobody
                /\ balance >= -amount[w]
                /\ mutex' = w
                /\ seen' = [seen EXCEPT ![w] = balance]
                /\ UNCHANGED <<balance, status, ledgerVars, amount>>

\* ... or there is not: cond_wait releases the mutex.
WaitForMoney(w) == /\ From(w, "lock", "asleep")
                   /\ mutex = Nobody
                   /\ balance < -amount[w]
                   /\ UNCHANGED <<accountVars, ledgerVars, ownVars>>

\* pthread_cond_wait may return without a signal.
WakeUnasked(w) == /\ From(w, "asleep", "lock")
                  /\ UNCHANGED <<accountVars, ledgerVars, ownVars>>

-----------------------------------------------------------------------------
(* cfo_audit_routine                                                        *)

\* The earner's status is read and printed.
Look(a) == /\ From(a, "begin", "audit")
           /\ UNCHANGED <<accountVars, ledgerVars, ownVars>>

NothingNew(a) == /\ From(a, "audit", "begin")
                 /\ writers = {}
                 /\ log_index[a] = Len(logs)
                 /\ UNCHANGED <<accountVars, ledgerVars, ownVars>>

ReadLock(a) == /\ From(a, "audit", "read")
               /\ writers = {}
               /\ log_index[a] < Len(logs)
               /\ readers' = readers \cup {a}
               /\ UNCHANGED <<accountVars, log_stream, logs, audited, writers, log_index,
                              ownVars>>

SumOf(entry) == FoldSeq(LAMBDA x, y : x + y, 0, entry)

\* One line is printed.  What all auditors have read is only kept as a sum.
ReadEntry(a) ==
    /\ tpc[a] = "read"
    /\ log_index[a] < Len(logs)
    /\ LET read == [log_index EXCEPT ![a] = @ + 1] IN
       IF \A b \in Auditors : read[b] > 0
       THEN /\ log_index' = [b \in Auditors |-> read[b] - 1]
            /\ audited' = audited + SumOf(Head(logs))
            /\ logs' = Tail(logs)
       ELSE log_index' = read /\ UNCHANGED <<audited, logs>>
    /\ UNCHANGED <<accountVars, log_stream, lockVars, ownVars, tpc>>

ReadUnlock(a) == /\ From(a, "read", "begin")
                 /\ log_index[a] = Len(logs)
                 /\ readers' = readers \ {a}
                 /\ UNCHANGED <<accountVars, log_stream, logs, audited, writers, log_index,
                                ownVars>>

-----------------------------------------------------------------------------
Transaction(t) == WriteBalance(t) \/ WriteLock(t) \/ PushLog(t)

HusbandStep == \/ StartWork \/ Rest \/ Signal \/ Transaction(Husband)
               \/ \E i \in Incomes : LockToPay(i)

WifeStep(w) == \/ LockToBuy(w) \/ WaitForMoney(w) \/ Transaction(w)
               \/ \E p \in Prices : Wish(w, p)

AuditorStep(a) == Look(a) \/ NothingNew(a) \/ ReadLock(a) \/ ReadEntry(a) \/ ReadUnlock(a)

TreasuryNext == \/ HusbandStep
                \/ \E w \in Wives : WifeStep(w) \/ WakeUnasked(w)
                \/ \E a \in Auditors : AuditorStep(a)

TreasurySpec == TreasuryInit /\ [][TreasuryNext]_treasuryVars

\* Every thread runs; nothing is assumed of who gets a lock, of whom a signal
\* wakes, or of spurious wake-ups.
TreasuryFairSpec == /\ TreasurySpec
                    /\ WF_treasuryVars(HusbandStep)
                    /\ \A w \in Wives : WF_treasuryVars(WifeStep(w))
                    /\ \A a \in Auditors : WF_treasuryVars(AuditorStep(a))

-----------------------------------------------------------------------------
(* What is relied on.                                                       *)

\* The balance is never negative: lines 103 and 108 test and deduct an
\* unsigned amount of a signed balance, and a negative one would compare as
\* more than any price.
TypeOK == /\ balance \in Nat
          /\ mutex \in Spenders \cup {Nobody}
          /\ status \in {"IDLE", "WORKING", "RESTING"}
          /\ log_stream \in Seq(Int) /\ logs \in Seq(Seq(Int)) /\ audited \in Int
          /\ writers \subseteq Spenders /\ readers \subseteq Auditors
          /\ log_index \in [Auditors -> 0 .. MaxUnread]
          /\ tpc \in [Spenders \cup Auditors ->
                       {"begin", "lock", "write", "log", "push", "rest", "signal",
                        "asleep", "audit", "read"}]
          /\ amount \in [Spenders -> Int] /\ seen \in [Spenders -> Int]

\* The amounts that have changed the balance and are not in the ledger yet.
Unwritten == MapThenSumSet(LAMBDA t : amount[t],
                           {t \in Spenders : tpc[t] \in {"log", "push"}})

\* No transaction is lost and none is booked twice: the balance is what the
\* ledger adds up to, with the transactions on their way there
\* (FamilyTreasury.cpp lines 20-30 and 102-117 take the two locks in turn).
MoneyIsConserved ==
    balance = audited + SumOf([k \in DOMAIN logs |-> SumOf(logs[k])]) + Unwritten

\* The account is sound at every moment: never negative, and what the ledger says.
MoneyInv == TypeOK /\ MoneyIsConserved

\* Every entry is the line of one transaction: nobody writes to the shared
\* stream between another's line and its push (lines 24-30).
EntriesAreWhole == \A k \in DOMAIN logs : Len(logs[k]) = 1

\* The shopping never ends: the one signal per pay day is enough for some
\* wife to go on (lines 92 and 103-107).
SomebodyShops == []<>(\E w \in Wives : tpc[w] = "log")
=============================================================================
