--------------------------- MODULE OntologyStore ---------------------------
(***************************************************************************)
(* The entities an agent knows and one property of each, from              *)
(* OntologyStore.cpp, the ontology actions of ConsolidationTool.cpp and    *)
(* the reconciler of ConsolidationPipeline.cpp.  A property may cite an    *)
(* observation as evidence and then has its state.                         *)
(*                                                                         *)
(* Each statement is a step, of one writer (a chain, or the pipeline).     *)
(* Foreign keys are enforced.  The triggers exist on SQLite only.  One     *)
(* agent and one category; values and the mutation log are left out, and   *)
(* so is MoveEntity, which nothing calls.                                  *)
(***************************************************************************)
EXTENDS Naturals, Sequences

CONSTANTS
    Sqlite,         \* TRUE: SQLite, FALSE: PostgreSQL
    Writers,
    Paths,          \* the paths asked for, closed under prefixes
    Observations,
    MaxEntities,    \* bound: entities ever created
    MaxBoots        \* bound: boots

VARIABLES
    entity,     \* id -> [path, parent]; parent 0 is NULL
    lastId,
    prop,       \* entity id -> [state, link, shared] of its property; link "" is NULL
    obs,        \* observation -> "new", "current", "deprecated" or "gone"
    at,         \* writer -> where it is
    boots

ontoVars == <<entity, lastId, prop, obs, at, boots>>

States == {"new", "current", "deprecated"}
NoLink == ""
Idle == [pc |-> "idle"]
Ids == 1 .. MaxEntities
ByPath(p) == {i \in DOMAIN entity : entity[i].path = p}
Extant == {o \in Observations : obs[o] # "gone"}
PutProp(e, p) == prop' = [i \in DOMAIN prop \cup {e} |-> IF i = e THEN p ELSE prop[i]]

(* Adopted rows from before properties had an agent may be there.          *)
OntoInit ==
    /\ entity = << >> /\ lastId = 0 /\ prop = << >> /\ boots = 0
    /\ obs = [o \in Observations |-> "new"]
    /\ at = [w \in Writers |-> Idle]

Go(w, r) == at' = [at EXCEPT ![w] = r]

-----------------------------------------------------------------------------
(* HandleOntologyUpsert, and each upsert of ReconcileOntology: the path,   *)
(* then its property.  A link is one the run itself created.               *)
Upsert(w, path, link) ==
    /\ at[w] = Idle
    /\ Go(w, [pc |-> "find", path |-> path, n |-> 1, parent |-> 0, link |-> link])
    /\ UNCHANGED <<entity, lastId, prop, obs, boots>>

(* EnsureEntityPath, one segment at a time.                                *)
Segment(w) == SubSeq(at[w].path, 1, at[w].n)
Onwards(w, id) == IF at[w].n = Len(at[w].path)
                  THEN [pc |-> "prop", id |-> id, link |-> at[w].link]
                  ELSE [at[w] EXCEPT !.pc = "find", !.n = @ + 1, !.parent = id]

FindByPath(w) ==
    /\ at[w].pc = "find"
    /\ IF ByPath(Segment(w)) = {} THEN Go(w, [at[w] EXCEPT !.pc = "make"])
       ELSE \E i \in ByPath(Segment(w)) : Go(w, Onwards(w, i))
    /\ UNCHANGED <<entity, lastId, prop, obs, boots>>

(* The unique path makes a second insert fail and find the first; a parent *)
(* deleted meanwhile fails it for good.                                    *)
CreateEntity(w) ==
    LET same == ByPath(Segment(w))
    IN /\ at[w].pc = "make"
       /\ IF same # {} THEN (\E i \in same : Go(w, Onwards(w, i))) /\ UNCHANGED <<entity, lastId>>
          ELSE IF at[w].parent # 0 /\ at[w].parent \notin DOMAIN entity
          THEN Go(w, Idle) /\ UNCHANGED <<entity, lastId>>
          ELSE /\ lastId < MaxEntities /\ lastId' = lastId + 1
               /\ entity' = [i \in DOMAIN entity \cup {lastId + 1} |->
                               IF i = lastId + 1 THEN [path |-> Segment(w), parent |-> at[w].parent]
                               ELSE entity[i]]
               /\ Go(w, Onwards(w, lastId + 1))
       /\ UNCHANGED <<prop, obs, boots>>

(* SetProperty: the property and the evidence are read, then one is        *)
(* written.                                                                *)
ReadEvidence(w) ==
    LET o == at[w].link
        state == IF o = NoLink THEN "new" ELSE IF o \in Extant THEN obs[o] ELSE "deprecated"
    IN /\ at[w].pc = "prop"
       /\ Go(w, [pc |-> "write", id |-> at[w].id, link |-> o, state |-> state,
                 update |-> at[w].id \in DOMAIN prop])
       /\ UNCHANGED <<entity, lastId, prop, obs, boots>>

SetProperty(w) ==
    LET r == at[w]
        fails == \/ r.update # (r.id \in DOMAIN prop)
                 \/ r.id \notin DOMAIN entity
                 \/ r.link # NoLink /\ r.link \notin Extant
    IN /\ r.pc = "write"
       /\ IF fails THEN UNCHANGED prop
          ELSE PutProp(r.id, [state |-> r.state, link |-> r.link,
                              shared |-> r.update /\ prop[r.id].shared])
       /\ Go(w, Idle)
       /\ UNCHANGED <<entity, lastId, obs, boots>>

DeleteEntity_Dangling(id) ==
    /\ id \in DOMAIN entity
    /\ entity' = [i \in DOMAIN entity \ {id} |-> entity[i]]
    /\ prop' = [i \in DOMAIN prop \ {id} |-> prop[i]]
    /\ UNCHANGED <<lastId, obs, at, boots>>

(* HandleOntologyDelete: children are left without a parent, the property  *)
(* goes with the entity.                                                   *)
DeleteEntity(id) ==
    /\ id \in DOMAIN entity
    /\ entity' = [i \in DOMAIN entity \ {id} |->
                    IF entity[i].parent = id THEN [entity[i] EXCEPT !.parent = 0] ELSE entity[i]]
    /\ prop' = [i \in DOMAIN prop \ {id} |-> prop[i]]
    /\ UNCHANGED <<lastId, obs, at, boots>>

(* A row of an older version, with no agent and no evidence.               *)
AdoptLegacy(id) ==
    /\ boots = 0 /\ id \in DOMAIN entity /\ id \notin DOMAIN prop
    /\ PutProp(id, [state |-> "new", link |-> NoLink, shared |-> TRUE])
    /\ UNCHANGED <<entity, lastId, obs, at, boots>>

-----------------------------------------------------------------------------
(* What happens to the observations elsewhere, with the triggers of        *)
(* EnsureSchema and the foreign key's ON DELETE SET NULL.                  *)
Rescore(o, s) ==
    /\ o \in Extant /\ obs[o] # s
    /\ obs' = [obs EXCEPT ![o] = s]
    /\ prop' = [i \in DOMAIN prop |-> IF Sqlite /\ prop[i].link = o THEN [prop[i] EXCEPT !.state = s] ELSE prop[i]]
    /\ UNCHANGED <<entity, lastId, at, boots>>

DeleteObservation(o) ==
    /\ o \in Extant
    /\ obs' = [obs EXCEPT ![o] = "gone"]
    /\ prop' = [i \in DOMAIN prop |->
                  IF prop[i].link # o THEN prop[i]
                  ELSE [prop[i] EXCEPT !.link = NoLink,
                        !.state = IF Sqlite THEN "deprecated" ELSE @]]
    /\ UNCHANGED <<entity, lastId, at, boots>>

(* SyncPropertyStatesFromObservations, at boot.                            *)
Synced_LinkedFirst(p) ==
    IF p.link = NoLink THEN (IF p.state = "new" THEN [p EXCEPT !.state = "current"] ELSE p)
    ELSE IF p.state = "deprecated" THEN p ELSE [p EXCEPT !.state = obs[p.link]]

Synced(p) ==
    IF p.link = NoLink
    THEN IF p.shared /\ p.state = "new" THEN [p EXCEPT !.state = "current"] ELSE p
    ELSE IF p.link \in Extant THEN [p EXCEPT !.state = obs[p.link]]
    ELSE [p EXCEPT !.link = NoLink, !.state = "deprecated"]

SyncPropertyStatesFromObservations ==
    /\ boots < MaxBoots /\ boots' = boots + 1
    /\ at' = [w \in Writers |-> Idle]
    /\ prop' = [i \in DOMAIN prop |-> Synced(prop[i])]
    /\ UNCHANGED <<entity, lastId, obs>>

OntoNext ==
    \/ SyncPropertyStatesFromObservations
    \/ \E w \in Writers :
         \/ FindByPath(w) \/ CreateEntity(w) \/ ReadEvidence(w) \/ SetProperty(w)
         \/ \E p \in Paths, o \in Extant \cup {NoLink} : Upsert(w, p, o)
    \/ \E id \in Ids : DeleteEntity(id) \/ AdoptLegacy(id)
    \/ \E o \in Observations : DeleteObservation(o) \/ \E s \in States : Rescore(o, s)

OntoSpec == OntoInit /\ [][OntoNext]_ontoVars

-----------------------------------------------------------------------------
(* However writers that ensure one path and a deletion interleave, an      *)
(* entity's parent, when it has one, is the entity of the path above it.   *)
ParentMatchesPath ==
    \A i \in DOMAIN entity :
       LET p == entity[i].parent
       IN p # 0 => p \in DOMAIN entity /\ entity[p].path = SubSeq(entity[i].path, 1, Len(entity[i].path) - 1)

(* After a boot the state of every property with evidence is that of its   *)
(* evidence, whichever writer raced a rescoring before, and "a New         *)
(* property ... stays New until the reconciler links it".                  *)
InStep ==
    boots' # boots =>
       \A i \in DOMAIN prop' :
          /\ prop'[i].link # NoLink => prop'[i].state = obs[prop'[i].link]
          /\ prop[i].link = NoLink /\ ~prop[i].shared => prop'[i] = prop[i]
BootInStep == [][InStep]_ontoVars

(* "children may exist - delete or move them first"                        *)
(* (ConsolidationTool.cpp:1384): an entity below the top has a parent.     *)
(* The code does not keep it: the deletion sets the children's to NULL.    *)
ChildrenKeepParent == \A i \in DOMAIN entity : Len(entity[i].path) > 1 => entity[i].parent # 0

(* "Preserve property but orphan it when evidence is deleted": a property  *)
(* whose evidence is gone is deprecated.  On PostgreSQL the code does not  *)
(* keep it: the link goes, no trigger runs and the sync skips the row.     *)
OrphanIsDeprecated ==
    [][\A i \in DOMAIN prop : i \in DOMAIN prop' /\ prop[i].link # NoLink /\ prop'[i].link = NoLink /\ at' = at =>
          prop'[i].state = "deprecated"]_ontoVars
=============================================================================
