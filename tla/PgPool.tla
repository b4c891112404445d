-------------------------------- MODULE PgPool --------------------------------
(***************************************************************************)
(* src/kernel/data/PgDataStore.cpp: the pool of PostgreSQL connections,    *)
(* the statements that hold one while they live, and the transaction that  *)
(* pins one to its thread.                                                 *)
(*                                                                         *)
(* PostgreSQL is external: a connection breaks at any time, a statement is *)
(* refused, and a refused statement spoils the transaction it was in.      *)
(***************************************************************************)
EXTENDS Naturals, Sequences, FiniteSets, SequencesExt

CONSTANTS
    Threads,
    Conns,          \* the connections the constructor made
    MaxHeld,        \* statements of one thread that are alive at once
    MaxDepth, MaxWrites, MaxBreaks

VARIABLES
    avail,      \* m_available
    pin,        \* TlsTxnConnection: thread -> connection or NoConn
    stmts,      \* thread -> its statements: [conn, owns]
    alive,      \* connection -> whether it works
    tx,         \* server: connection -> "none", "open", "spoilt"
    pending,    \* server: connection -> the writes of its transaction
    db,         \* what is stored
    unit,       \* thread -> its outermost transaction, as the caller sees it
    acks,       \* how those ended
    writes, breaks

poolVars == <<avail, pin, stmts, alive, tx, pending, db, unit, acks, writes, breaks>>

NoConn == "none"
NoUnit == [depth |-> 0, ws |-> {}, failed |-> FALSE, nested |-> FALSE, begun |-> TRUE]

PoolInit ==
    /\ avail = SetToSeq(Conns) /\ pin = [t \in Threads |-> NoConn]
    /\ stmts = [t \in Threads |-> << >>]
    /\ alive = [c \in Conns |-> TRUE] /\ tx = [c \in Conns |-> "none"]
    /\ pending = [c \in Conns |-> {}]
    /\ db = {} /\ unit = [t \in Threads |-> NoUnit] /\ acks = {} /\ writes = 0 /\ breaks = 0

(* Acquire: the first of the pool, connected anew when it does not answer; *)
(* a thread that finds none waits.                                         *)
Acquire(c, works) ==
    /\ avail # << >> /\ c = Head(avail) /\ avail' = Tail(avail)
    /\ alive[c] => works
    /\ alive' = [alive EXCEPT ![c] = works]

(* A statement inside a transaction is of the pinned connection and does   *)
(* not give it back.                                                       *)
Prepare(t, c, works) ==
    /\ Len(stmts[t]) < MaxHeld
    /\ IF pin[t] # NoConn THEN c = pin[t] /\ works = alive[c] /\ UNCHANGED <<avail, alive>>
           ELSE Acquire(c, works)
    /\ stmts' = [stmts EXCEPT ![t] = Append(@, [conn |-> c, owns |-> pin[t] = NoConn])]
    /\ UNCHANGED <<pin, tx, pending, db, unit, acks, writes, breaks>>

Released_Always(s) == <<s.conn>>

Released(s) == IF s.owns THEN <<s.conn>> ELSE << >>

DestroyStatement(t) ==
    /\ stmts[t] # << >>
    /\ avail' = avail \o Released(Last(stmts[t])) /\ stmts' = [stmts EXCEPT ![t] = Front(@)]
    /\ UNCHANGED <<pin, alive, tx, pending, db, unit, acks, writes, breaks>>

(* Execute on connection c: done, or refused.                              *)
Runs(t, c, ok) ==
    /\ writes < MaxWrites /\ writes' = writes + 1
    /\ ok => alive[c] /\ tx[c] # "spoilt"
    /\ db' = IF ok /\ tx[c] = "none" THEN db \cup {writes + 1} ELSE db
    /\ pending' = IF ok /\ tx[c] = "open" THEN [pending EXCEPT ![c] = @ \cup {writes + 1}]
           ELSE pending
    /\ tx' = IF ~ok /\ alive[c] /\ tx[c] = "open" THEN [tx EXCEPT ![c] = "spoilt"] ELSE tx
    /\ unit' = IF unit[t].depth = 0 THEN unit
               ELSE IF ok THEN [unit EXCEPT ![t].ws = @ \cup {writes + 1}]
                   ELSE [unit EXCEPT ![t].failed = TRUE]

(* Callers run a statement in the transaction it was prepared in.          *)
Execute(t, ok) ==
    /\ stmts[t] # << >>
    /\ (IF pin[t] = NoConn THEN Last(stmts[t]).owns ELSE Last(stmts[t]).conn = pin[t])
    /\ Runs(t, Last(stmts[t]).conn, ok)
    /\ UNCHANGED <<avail, pin, stmts, alive, acks, breaks>>

(* Exec: on the pinned connection, or one taken and given back.            *)
Exec(t, c, works, ok) ==
    /\ IF pin[t] # NoConn THEN c = pin[t] /\ works = alive[c] /\ UNCHANGED <<avail, alive>>
       ELSE /\ avail # << >> /\ c = Head(avail) /\ avail' = Append(Tail(avail), c)
            /\ (alive[c] => works) /\ alive' = [alive EXCEPT ![c] = works]
    /\ (ok => works) /\ (alive[c] \/ ~ok) /\ Runs(t, c, ok)
    /\ UNCHANGED <<pin, stmts, acks, breaks>>

-----------------------------------------------------------------------------
BeginTransaction(t, c, works) ==
    /\ unit[t].depth < MaxDepth
    /\ IF pin[t] # NoConn
       THEN c = pin[t] /\ works = alive[c] /\ UNCHANGED <<avail, pin, alive, tx>>
       ELSE /\ Acquire(c, works) /\ works
            /\ pin' = [pin EXCEPT ![t] = c] /\ tx' = [tx EXCEPT ![c] = "open"]
    /\ unit' = [unit EXCEPT ![t] = IF @.depth = 0 THEN [NoUnit EXCEPT !.depth = 1]
                                   ELSE [@ EXCEPT !.depth = @ + 1, !.nested = TRUE]]
    /\ UNCHANGED <<stmts, pending, db, acks, writes, breaks>>

(* BEGIN fails and returns false; callers go on (ApiPackageStore.cpp:880). *)
BeginFails(t, c) ==
    /\ unit[t].depth = 0 /\ pin[t] = NoConn /\ avail # << >> /\ c = Head(avail) /\ ~alive[c]
    /\ avail' = Append(Tail(avail), c)
    /\ unit' = [unit EXCEPT ![t] = [NoUnit EXCEPT !.depth = 1, !.begun = FALSE]]
    /\ UNCHANGED <<pin, stmts, alive, tx, pending, db, acks, writes, breaks>>

(* The pinned connection goes back to the pool whatever the server said.   *)
Unpin_StaysOut(t) == avail' = avail /\ pin' = [pin EXCEPT ![t] = NoConn]

Unpin(t) ==
    /\ avail' = (IF pin[t] = NoConn THEN avail ELSE Append(avail, pin[t]))
    /\ pin' = [pin EXCEPT ![t] = NoConn]

Ends(t, kind, said) ==
    IF unit[t].depth > 1
    THEN unit' = [unit EXCEPT ![t].depth = @ - 1, ![t].failed = @ \/ ~said \/ kind = "rollback"] /\ UNCHANGED acks
    ELSE /\ unit' = [unit EXCEPT ![t] = NoUnit]
         /\ acks' = acks \cup
                  IF unit[t].ws = {} THEN {} ELSE
                               {[kind |-> kind, said |-> said, ws |-> unit[t].ws,
                                failed |-> unit[t].failed,
                                nested |-> unit[t].nested, begun |-> unit[t].begun]}

EndOnServer(c, kept) ==
    /\ tx' = [tx EXCEPT ![c] = "none"] /\ pending' = [pending EXCEPT ![c] = {}]
    /\ db' = IF kept /\ tx[c] = "open" THEN db \cup pending[c] ELSE db

CommitOk_Ignored(c) == TRUE

(* PQexec's answer to COMMIT is COMMAND_OK.                                *)
CommitOk(c) == alive[c]

(* COMMIT of a spoilt transaction is answered like any other; with nothing *)
(* pinned there is nothing to do.                                          *)
Commit(t) ==
    /\ unit[t].depth > 0 /\ Unpin(t)
    /\ IF pin[t] = NoConn THEN Ends(t, "commit", TRUE) /\ UNCHANGED <<tx, pending, db>>
       ELSE Ends(t, "commit", CommitOk(pin[t])) /\ EndOnServer(pin[t], alive[pin[t]])
    /\ UNCHANGED <<stmts, alive, writes, breaks>>

(* The connection breaks under COMMIT: the server may have done it.        *)
CommitLost(t, reached) ==
    /\ unit[t].depth > 0 /\ pin[t] # NoConn /\ alive[pin[t]] /\ breaks < MaxBreaks
    /\ breaks' = breaks + 1
    /\ Unpin(t) /\ Ends(t, "commit", FALSE) /\ EndOnServer(pin[t], reached)
    /\ alive' = [alive EXCEPT ![pin[t]] = FALSE]
    /\ UNCHANGED <<stmts, writes>>

Rollback(t) ==
    /\ unit[t].depth > 0 /\ Unpin(t)
    /\ IF pin[t] = NoConn THEN Ends(t, "rollback", TRUE) /\ UNCHANGED <<tx, pending, db>>
       ELSE Ends(t, "rollback", alive[pin[t]]) /\ EndOnServer(pin[t], FALSE)
    /\ UNCHANGED <<stmts, alive, writes, breaks>>

(* External: a connection breaks, also by a timeout of the server.         *)
Break(c) ==
    /\ alive[c] /\ breaks < MaxBreaks /\ breaks' = breaks + 1
    /\ alive' = [alive EXCEPT ![c] = FALSE]
    /\ tx' = [tx EXCEPT ![c] = "none"] /\ pending' = [pending EXCEPT ![c] = {}]
    /\ UNCHANGED <<avail, pin, stmts, db, unit, acks, writes>>

PoolNext ==
    \/ \E t \in Threads :
         \/ \E c \in Conns, works \in BOOLEAN :
              \/ Prepare(t, c, works) \/ BeginTransaction(t, c, works) \/ BeginFails(t, c)
              \/ \E ok \in BOOLEAN : Exec(t, c, works, ok)
         \/ \E b \in BOOLEAN : Execute(t, b) \/ CommitLost(t, b)
         \/ DestroyStatement(t) \/ Commit(t) \/ Rollback(t)
    \/ \E c \in Conns : Break(c)

PoolSpec == PoolInit /\ [][PoolNext]_poolVars

-----------------------------------------------------------------------------
Owners(c) ==
    {<<t, 0>> : t \in {u \in Threads : pin[u] = c}}
    \cup UNION {{<<t, i>> : i \in {j \in DOMAIN stmts[t] : stmts[t][j].conn = c /\ stmts[t][j].owns}} : t \in Threads}

(* A connection is in the pool once, or has one owner: whichever way       *)
(* transactions nest and break and statements outlive them, none is lost   *)
(* and none is lent twice; and one in the pool is in no transaction (the   *)
(* deadlock of 2026-09-05 that PgDataStore.h tells of).                    *)
PoolExact ==
    \A c \in Conns :
      /\ Cardinality({i \in DOMAIN avail : avail[i] = c}) + Cardinality(Owners(c)) = 1
      /\ (\E i \in DOMAIN avail : avail[i] = c) => tx[c] = "none"

(* What a transaction told its caller: with no statement refused, a commit *)
(* that returned true stored everything, nested or not, and a rollback of  *)
(* one that had begun and was not nested left nothing.                     *)
OutcomeTold ==
    \A a \in acks :
      /\ a.kind = "commit" /\ a.said /\ ~a.failed => a.ws \subseteq db
      /\ a.kind = "rollback" /\ ~a.nested /\ a.begun => a.ws \cap db = {}

(* Violated: "callers rely on nesting being benign" (PgDataStore.cpp:471). *)
(* The inner commit ends the outer transaction too, and a BEGIN that       *)
(* failed leaves nothing to roll back.                                     *)
RolledBackIsGone == \A a \in acks : a.kind = "rollback" => a.ws \cap db = {}

(* Violated: a commit that returned true stored what had been done.  After *)
(* a refused statement the server rolls back and answers COMMIT all the    *)
(* same (PgDataStore.cpp:496).                                             *)
CommittedIsStored == \A a \in acks : a.kind = "commit" /\ a.said => a.ws \subseteq db

(* Not all threads wait for a connection at once.  Holds when the pool is  *)
(* larger than what all threads but one statement each can hold; violated  *)
(* with as many connections as threads, each of which holds one statement  *)
(* and prepares another.                                                   *)
SomeoneProceeds ==
    ~(avail = << >> /\ \A t \in Threads : pin[t] = NoConn /\ Len(stmts[t]) \in 1..(MaxHeld - 1))
================================================================================
