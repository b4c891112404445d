---------------------------- MODULE SessionStore ----------------------------
(***************************************************************************)
(* Session (Session.cpp) and SqliteSessionStore: sessions cached in memory *)
(* and appended to the database, turn ids counted per session, the intake  *)
(* of consolidation that reads and marks turns in the database behind the  *)
(* cache, lookups that load a session from the database, and restarts.     *)
(*                                                                         *)
(* A turn carries a number of its own (`what`), so that two turns of one   *)
(* id can be told apart.                                                   *)
(***************************************************************************)
EXTENDS Naturals, Sequences, FiniteSets, SequencesExt

CONSTANTS
    Sessions,     \* session ids
    MaxWhat,      \* bound: turns ever added
    MaxRestarts,  \* bound
    MaxIntakes,   \* bound: intake batches
    MaxLookups,   \* bound: lookups by conversation id
    MaxFailures   \* bound: INSERTs that fail

VARIABLES
    entries,    \* m_entries: the cached Session objects, oldest first
    rows,       \* session_turns: by session, the rows by turn id
    sumRow,     \* session_compaction_summaries: by session, the turn id, 0: none
    exists,     \* rows of the table sessions
    writer,     \* the object a running chain holds by shared_ptr: an index of entries, 0: none
    whats,      \* turns added so far
    batch,      \* the turns an intake has read and not marked: <<session, id>>
    taken,      \* history: turn -> times an intake read it
    gone,       \* history: turns of deleted sessions
    lookups, restarts, intakes, failures

storeVars == <<entries, rows, sumRow, exists, writer, whats, batch, taken, gone, lookups, restarts,
               intakes, failures>>

Fresh(s) == [sid |-> s, turns |-> <<>>, next |-> 1, sum |-> 0]

StoreInit ==
    /\ entries = <<>> /\ rows = [s \in Sessions |-> <<>>] /\ sumRow = [s \in Sessions |-> 0]
    /\ exists = {} /\ writer = 0 /\ whats = 0 /\ batch = {} /\ taken = [w \in 1..MaxWhat |-> 0]
    /\ gone = {} /\ lookups = 0 /\ restarts = 0 /\ intakes = 0 /\ failures = 0

(* Ids of a session's rows.  `rows[s]` is a sequence in turn_id order.     *)
RowIds(s) == {rows[s][k].id : k \in DOMAIN rows[s]}

MaxId(S) == IF S = {} THEN 0 ELSE Max(S)

AddTurn_KeepsNext(o, turn) ==
    IF turn.id = 0 THEN [o EXCEPT !.turns = Append(@, [turn EXCEPT !.id = o.next]), !.next = @ + 1]
    ELSE [o EXCEPT !.turns = Append(@, turn)]

(* Session::AddTurn: a new turn takes the next id, a loaded one moves the  *)
(* counter past its own.                                                   *)
AddTurn(o, turn) ==
    IF turn.id = 0 THEN [o EXCEPT !.turns = Append(@, [turn EXCEPT !.id = o.next]), !.next = @ + 1]
    ELSE [o EXCEPT !.turns = Append(@, turn), !.next = IF turn.id >= @ THEN turn.id + 1 ELSE @]

(* Session::SetCompactionSummary takes an id from the same counter.        *)
SetCompactionSummary(o, id) ==
    IF id = 0 THEN [o EXCEPT !.sum = o.next, !.next = @ + 1]
    ELSE [o EXCEPT !.sum = id, !.next = IF id >= @ THEN id + 1 ELSE @]

(* LoadTurns and LoadCompactionSummary.                                    *)
LoadFromDbById(s) ==
    LET Load[k \in 0..Len(rows[s])] ==
          IF k = 0 THEN Fresh(s) ELSE AddTurn(Load[k - 1], rows[s][k])
        loaded == Load[Len(rows[s])]
    IN  IF sumRow[s] = 0 THEN loaded ELSE SetCompactionSummary(loaded, sumRow[s])

(* The first cached object with an id: what GetById, GetOrCreate and       *)
(* FlushSession find.                                                      *)
Cached(s) == {k \in DOMAIN entries : entries[k].sid = s}

First(s) == Min(Cached(s))

(* PersistSession: rows beyond the highest persisted id are appended, the  *)
(* flags of the others are overwritten from memory, the summary replaced.  *)
(* `lost` is a turn whose INSERT fails, 0: none.                           *)
PersistSession(o, lost) ==
    LET top  == MaxId(RowIds(o.sid))
        new  == SelectSeq(o.turns, LAMBDA t : t.id > top /\ t.what # lost)
        Mine(id) == {k \in DOMAIN o.turns : o.turns[k].id = id}
        Upd(r) == IF Mine(r.id) = {} THEN r
                  ELSE LET t == o.turns[Max(Mine(r.id))]
                       IN  [r EXCEPT !.compacted = t.compacted, !.processed = t.processed]
    IN  /\ rows' = [rows EXCEPT ![o.sid] = [k \in DOMAIN @ |-> Upd(@[k])] \o new]
        /\ sumRow' = [sumRow EXCEPT ![o.sid] = o.sum]
        /\ exists' = exists \cup {o.sid}

GetOrCreate(s) ==
    /\ writer = 0
    /\ IF Cached(s) # {}
         THEN writer' = First(s) /\ UNCHANGED <<entries, rows, sumRow, exists>>
         ELSE /\ s \notin exists
              /\ entries' = Append(entries, Fresh(s))
              /\ PersistSession(Fresh(s), 0)
              /\ writer' = Len(entries) + 1
    /\ UNCHANGED <<whats, batch, taken, gone, lookups, restarts, intakes, failures>>

(* FindByConversationId: another object is loaded and cached, whether or   *)
(* not the session is cached already; the sessions tool asks for any name  *)
(* that is not a full key.                                                 *)
FindByConversationId(s) ==
    /\ s \in exists /\ lookups < MaxLookups
    /\ lookups' = lookups + 1
    /\ entries' = Append(entries, LoadFromDbById(s))
    /\ UNCHANGED <<rows, sumRow, exists, writer, whats, batch, taken, gone, restarts, intakes,
                   failures>>

(* A chain adds a turn to the object it holds and flushes the session by   *)
(* id, which persists the first object with that id.                       *)
WriteTurn ==
    /\ writer # 0 /\ whats < MaxWhat
    /\ LET turn == [id |-> 0, what |-> whats + 1, compacted |-> FALSE, processed |-> FALSE]
           now  == [entries EXCEPT ![writer] = AddTurn(@, turn)]
       IN  /\ entries' = now
           /\ \E lost \in {0} \cup {now[writer].turns[k].what : k \in DOMAIN now[writer].turns} :
                /\ lost = 0 \/ failures < MaxFailures
                /\ failures' = IF lost = 0 THEN failures ELSE failures + 1
                /\ PersistSession(now[First(entries[writer].sid)], lost)
    /\ whats' = whats + 1
    /\ UNCHANGED <<writer, batch, taken, gone, lookups, restarts, intakes>>

(* DoCompact, reduced to what the store sees: every turn marked, a summary *)
(* with an id of its own, a flush.                                         *)
CompactSession ==
    /\ writer # 0 /\ entries[writer].turns # <<>>
    /\ \E k \in DOMAIN entries[writer].turns : ~entries[writer].turns[k].compacted
    /\ LET o == entries[writer]
           marked == [o EXCEPT !.turns = [k \in DOMAIN @ |-> [@[k] EXCEPT !.compacted = TRUE]]]
       IN  /\ entries' = [entries EXCEPT ![writer] = SetCompactionSummary(marked, 0)]
           /\ PersistSession(entries'[First(o.sid)], 0)
    /\ UNCHANGED <<writer, whats, batch, taken, gone, lookups, restarts, intakes, failures>>

ChainDone ==
    /\ writer # 0 /\ writer' = 0
    /\ UNCHANGED <<entries, rows, sumRow, exists, whats, batch, taken, gone, lookups, restarts,
                   intakes, failures>>

(* GetUnprocessedTurns reads the database past the cache.                  *)
Unprocessed(s) == {k \in DOMAIN rows[s] : ~rows[s][k].processed}

GetUnprocessedTurns ==
    /\ batch = {} /\ intakes < MaxIntakes
    /\ batch' = UNION {{<<s, rows[s][k].id>> : k \in Unprocessed(s)} : s \in exists}
    /\ batch' # {}
    /\ taken' = [w \in DOMAIN taken |->
                   taken[w] + Cardinality({s \in exists : \E k \in Unprocessed(s) : rows[s][k].what = w})]
    /\ intakes' = intakes + 1
    /\ UNCHANGED <<entries, rows, sumRow, exists, writer, whats, gone, lookups, restarts, failures>>

(* UPDATE session_turns ... WHERE turn_id = id: by id alone, in every      *)
(* session; the cached turns keep their flag.                              *)
MarkTurnsProcessed ==
    /\ batch # {} /\ batch' = {}
    /\ LET ids == {b[2] : b \in batch}
       IN  rows' = [s \in Sessions |-> [k \in DOMAIN rows[s] |->
                      [rows[s][k] EXCEPT !.processed = @ \/ rows[s][k].id \in ids]]]
    /\ UNCHANGED <<entries, sumRow, exists, writer, whats, taken, gone, lookups, restarts,
                   intakes, failures>>

(* DeleteById erases the first object with the id, and the rows.           *)
DeleteById(s) ==
    /\ Cached(s) # {} /\ writer = 0
    /\ rows' = [rows EXCEPT ![s] = <<>>] /\ sumRow' = [sumRow EXCEPT ![s] = 0]
    /\ exists' = exists \ {s}
    /\ gone' = gone \cup {rows[s][k].what : k \in DOMAIN rows[s]}
    /\ entries' = RemoveAt(entries, First(s))
    /\ UNCHANGED <<writer, whats, batch, taken, lookups, restarts, intakes, failures>>

(* The process ends and LoadFromDb reads every session.                    *)
Restart ==
    /\ restarts < MaxRestarts /\ exists # {}
    /\ restarts' = restarts + 1
    /\ writer' = 0 /\ batch' = {}
    /\ LET order == SetToSortSeq(exists, LAMBDA a, b : a < b)
       IN  entries' = [k \in DOMAIN order |-> LoadFromDbById(order[k])]
    /\ UNCHANGED <<rows, sumRow, exists, whats, taken, gone, lookups, intakes, failures>>

StoreNext ==
    \/ WriteTurn \/ CompactSession \/ ChainDone \/ GetUnprocessedTurns \/ MarkTurnsProcessed
    \/ Restart
    \/ \E s \in Sessions : GetOrCreate(s) \/ FindByConversationId(s) \/ DeleteById(s)

StoreSpec == StoreInit /\ [][StoreNext]_storeVars

-----------------------------------------------------------------------------
(* A turn a chain has flushed is in the database, under an id no other     *)
(* turn of the session has: through restarts, which rebuild the counter    *)
(* from the rows and the summary, and compactions, which take an id.       *)
FlushedIsStored ==
    failures = 0 =>
        \A s \in exists : Cached(s) # {} =>
            \A t \in DOMAIN entries[First(s)].turns :
                \E r \in DOMAIN rows[s] :
                    /\ rows[s][r].id = entries[First(s)].turns[t].id
                    /\ rows[s][r].what = entries[First(s)].turns[t].what

(* The same with INSERTs that fail: a later flush makes up for it.  The    *)
(* code does not keep it: rows are appended beyond the highest id only.    *)
FailedInsertMadeUp ==
    \A k \in DOMAIN entries : \A t \in DOMAIN entries[k].turns :
        t < Len(entries[k].turns) /\ entries[k].sid \in exists =>
            \E r \in DOMAIN rows[entries[k].sid] : rows[entries[k].sid][r].what = entries[k].turns[t].what

(* "Mark specific turns as processed" (ISessionStore.h:191): a turn is     *)
(* handed to an intake once.  The code hands it out again: the next flush  *)
(* of its session writes the cached flag over the mark.                    *)
TakenOnce == \A w \in DOMAIN taken : taken[w] <= 1

(* The converse: no turn is marked that no intake has read.  The code marks *)
(* the turns of other sessions that have the same id.                      *)
MarkedWasTaken ==
    \A s \in Sessions : \A k \in DOMAIN rows[s] :
        rows[s][k].processed => taken[rows[s][k].what] > 0

(* The turns of a deleted session are gone.  The code brings them back: an *)
(* object a lookup has cached outlives DeleteById, is what the key finds   *)
(* next, and is flushed in full.                                           *)
DeletedStaysDeleted ==
    \A s \in Sessions : \A k \in DOMAIN rows[s] : rows[s][k].what \notin gone
=============================================================================
