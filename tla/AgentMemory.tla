---------------------------- MODULE AgentMemory ----------------------------
(***************************************************************************)
(* Agent memory over MCP: the five operations of MemoryStore, statement by *)
(* statement, as several stdio servers run them on one database.  A server *)
(* handles one request at a time on a connection of its own; every         *)
(* statement outside conn.transaction() commits by itself.                 *)
(*                                                                         *)
(* Of the engine only what the operations see is kept: a row of memories   *)
(* and a row of edge_type follow the host's rules (unique keys wait for    *)
(* the transaction that holds the key), a native vertex keeps its number   *)
(* for good, and the first native write takes the writer lock until the    *)
(* transaction ends.                                                       *)
(***************************************************************************)
EXTENDS Naturals, FiniteSets, Sequences

CONSTANTS
  Servers,   \* server processes on one DSN
  NoServer,  \* not in Servers
  Dim,       \* [Servers -> configured dimension]
  HasModel,  \* servers whose local embedder loaded
  Rels,      \* names of relations
  MaxMemory, \* bound: memories tried
  MaxVids,   \* bound: native vertices
  MaxEdges,  \* bound: edges tried
  MaxCrash   \* bound: transactions that end in a lost connection

ASSUME ServersAssumption == NoServer \notin Servers /\ Dim \in [Servers -> Nat \ {0}]
ASSUME MemoryBoundsAssumption == MaxMemory \in Nat /\ MaxVids \in Nat /\ MaxCrash \in Nat

VARIABLES
  schema,     \* dimension of the memories table, 0 before it exists
  memories,   \* the rows, with the server whose transaction has not ended
  vidMap,     \* gph_vid_map: ext, vid and the transaction
  nextVid,    \* gm_next_vid
  writerLock, \* holder of the writer lock
  types,      \* edge_type
  edges,      \* native edges
  req,        \* each server's request in progress
  told,       \* history: the ids an agent was told of
  crashes     \* transactions lost so far

mvars == <<schema, memories, vidMap, nextVid, writerLock, types, edges, req, told,
           crashes>>

NoTable == 0
Text    == 0
AnyType == 0   \* GPH_EDGE_TYPE_ANY
Idle == [at |-> "idle"]
Done == NoServer   \* the transaction of a committed row

MemoryId == 0..MaxMemory
Holder   == Servers \cup {Done}
EdgeType == [name : Rels \cup {"related_to"}, id : Nat, by : Holder]
Edge     == [src : MemoryId, dst : MemoryId, type : Nat, by : Holder]

\* A request at each of its statements.
Requests ==
  [at : {"idle", "create", "commit"}]
    \cup [at : {"insert", "upsert"}, id : MemoryId]
    \cup [at : {"check"}, id : MemoryId, vid : 0..MaxVids]
    \cup [at : {"type"}, src : MemoryId, dst : MemoryId, rel : Rels]
    \cup [at : {"register"}, src : MemoryId, dst : MemoryId, rel : Rels, type : Nat]
    \cup [at : {"edge"}, src : MemoryId, dst : MemoryId, type : Nat]
    \cup [at : {"walk"}, id : MemoryId, type : Nat]
    \cup [at : {"details"}, ids : SUBSET MemoryId]
    \cup [at : {"count"}, n : Nat]

MemTypeOK ==
  /\ schema \in {NoTable} \cup {Dim[s] : s \in Servers}
  /\ memories \subseteq [id : MemoryId, by : Holder]
  /\ vidMap \subseteq [ext : MemoryId, vid : 0..MaxVids, by : Holder]
  /\ nextVid \in 0..MaxVids
  /\ writerLock \in Servers \cup {NoServer}
  /\ types \subseteq EdgeType
  /\ edges \subseteq Edge
  /\ req \in [Servers -> Requests]
  /\ told \subseteq MemoryId
  /\ crashes \in 0..MaxCrash

MemInit ==
  /\ schema = NoTable
  /\ memories = {}
  /\ vidMap = {}
  /\ nextVid = 0
  /\ writerLock = NoServer
  /\ types = {[name |-> "related_to", id |-> 1, by |-> Done]}
  /\ edges = {}
  /\ req = [s \in Servers |-> Idle]
  /\ told = {}
  /\ crashes = 0

-----------------------------------------------------------------------------
(* Transactions.                                                           *)

Seen(s, table) == {r \in table : r.by \in {Done, s}}
Own(s, table)  == {r \in table : r.by = s}

Committed(s, table) ==
  (table \ Own(s, table)) \cup {[r EXCEPT !.by = Done] : r \in Own(s, table)}

Commits(s) ==
  /\ memories' = Committed(s, memories)
  /\ vidMap' = Committed(s, vidMap)
  /\ types' = Committed(s, types)
  /\ edges' = Committed(s, edges)
  /\ writerLock' = IF writerLock = s THEN NoServer ELSE writerLock
  /\ req' = [req EXCEPT ![s] = Idle]

\* The vertex keeps its number.
Aborts(s) ==
  /\ memories' = memories \ Own(s, memories)
  /\ vidMap' = vidMap \ Own(s, vidMap)
  /\ types' = types \ Own(s, types)
  /\ edges' = edges \ Own(s, edges)
  /\ writerLock' = IF writerLock = s THEN NoServer ELSE writerLock
  /\ req' = [req EXCEPT ![s] = Idle]

Goto(s, r) == req' = [req EXCEPT ![s] = r]
Tell(s, ids) == /\ told' = told \cup ids
                /\ Goto(s, Idle)

-----------------------------------------------------------------------------
(* _resolve_vector: what a caller sends, the dimension of its vector or    *)
(* Text, for bare text.  The local model emits the configured length; a    *)
(* vector of another length raises.                                        *)

Inputs == {Text} \cup {Dim[s] : s \in Servers}

Resolves(s, input) ==
  IF input = Text THEN s \in HasModel ELSE input = Dim[s]

-----------------------------------------------------------------------------
(* init_schema: the check of the dimension and the two CREATEs.  On a      *)
(* table that is there the call changes nothing, and is left out.          *)

InitCheck(s) ==
  /\ req[s] = Idle
  /\ schema = NoTable
  /\ Goto(s, [at |-> "create"])
  /\ UNCHANGED <<schema, memories, vidMap, nextVid, writerLock, types, edges, told,
                 crashes>>

InitCreate(s) ==
  /\ req[s].at = "create"
  /\ schema' = IF schema = NoTable THEN Dim[s] ELSE schema
  /\ Goto(s, Idle)
  /\ UNCHANGED <<memories, vidMap, nextVid, writerLock, types, edges, told, crashes>>

-----------------------------------------------------------------------------
(* store_memory.                                                           *)

\* COALESCE(max(id) + 1, 0) over what the statement sees.
NextId(s) ==
  IF Seen(s, memories) = {} THEN 0
  ELSE 1 + CHOOSE m \in {r.id : r \in Seen(s, memories)} :
             \A r \in Seen(s, memories) : r.id <= m

StoreStart(s, input) ==
  /\ req[s] = Idle
  /\ schema # NoTable
  /\ Resolves(s, input)
  /\ NextId(s) < MaxMemory
  /\ Goto(s, [at |-> "insert", id |-> NextId(s)])
  /\ UNCHANGED <<schema, memories, vidMap, nextVid, writerLock, types, edges, told,
                 crashes>>

Holders(table, key, k) == {r \in table : r[key] = k}

\* The primary key makes the insert wait for a transaction that holds the id;
\* one that committed it, or a table of another dimension, raises.
StoreInsert(s) ==
  LET id == req[s].id IN
  /\ req[s].at = "insert"
  /\ \A r \in Holders(memories, "id", id) : r.by = Done
  /\ IF Holders(memories, "id", id) = {} /\ schema = Dim[s]
     THEN /\ memories' = memories \cup {[id |-> id, by |-> s]}
          /\ Goto(s, [at |-> "upsert", id |-> id])
          /\ UNCHANGED <<vidMap, writerLock, types, edges>>
     ELSE Aborts(s)
  /\ UNCHANGED <<schema, nextVid, told, crashes>>

\* gph_upsert_vertex: the mapping the statement sees, or a new vertex.
StoreUpsert(s) ==
  LET id == req[s].id
      mapped == {r.vid : r \in Holders(Seen(s, vidMap), "ext", id)}
      new == mapped = {} IN
  /\ req[s].at = "upsert"
  /\ new => /\ Holders(vidMap, "ext", id) = {}
            /\ writerLock \in {s, NoServer}
            /\ nextVid < MaxVids
  /\ \E vid \in IF new THEN {nextVid} ELSE mapped :
       /\ vidMap' = IF new THEN vidMap \cup {[ext |-> id, vid |-> vid, by |-> s]}
                    ELSE vidMap
       /\ Goto(s, [at |-> "check", id |-> id, vid |-> vid])
  /\ writerLock' = IF new THEN s ELSE writerLock
  /\ nextVid' = IF new THEN nextVid + 1 ELSE nextVid
  /\ UNCHANGED <<schema, memories, types, edges, told, crashes>>

\* Mutant: the vid is not compared with the id.
Drifted(s) == FALSE

\* vid != mid.
Drift(s) == req[s].vid # req[s].id

StoreCheck(s) ==
  /\ req[s].at = "check"
  /\ IF Drift(s)
     THEN Aborts(s) /\ UNCHANGED told
     ELSE /\ Commits(s)
          /\ told' = told \cup {req[s].id}
  /\ UNCHANGED <<schema, nextVid, crashes>>

-----------------------------------------------------------------------------
(* connect.                                                                *)

Ids(s) == {r.id : r \in Seen(s, memories)}

\* Every endpoint was found.
Known(s, a, b) == {a, b} \subseteq Ids(s)

ConnectStart(s, a, b, rel) ==
  /\ req[s] = Idle
  /\ schema # NoTable
  /\ Cardinality(edges) < MaxEdges
  /\ Known(s, a, b)
  /\ Goto(s, [at |-> "type", src |-> a, dst |-> b, rel |-> rel])
  /\ UNCHANGED <<schema, memories, vidMap, nextVid, writerLock, types, edges, told,
                 crashes>>

\* register_edge_type: probe and max(id) + 1, each in a snapshot of its own.
ConnectType(s) ==
  LET r == req[s]
      known == Holders(Seen(s, types), "name", r.rel) IN
  /\ r.at = "type"
  /\ \/ /\ known # {}
        /\ \E t \in known :
             Goto(s, [at |-> "edge", src |-> r.src, dst |-> r.dst, type |-> t.id])
     \/ /\ known = {}
        /\ Goto(s, [at |-> "register", src |-> r.src, dst |-> r.dst,
                    rel |-> r.rel, type |-> 1 + Cardinality(Seen(s, types))])
  /\ UNCHANGED <<schema, memories, vidMap, nextVid, writerLock, types, edges, told,
                 crashes>>

\* ON CONFLICT (name) DO NOTHING and the re-read; a conflict on the id raises.
ConnectRegister(s) ==
  LET r == req[s]
      taken(key, k) == Holders(types, key, k) IN
  /\ r.at = "register"
  /\ \A t \in taken("name", r.rel) \cup taken("id", r.type) : t.by = Done
  /\ \/ /\ taken("name", r.rel) # {}
        /\ \E t \in taken("name", r.rel) :
             Goto(s, [at |-> "edge", src |-> r.src, dst |-> r.dst, type |-> t.id])
        /\ UNCHANGED <<memories, vidMap, writerLock, types, edges>>
     \/ /\ taken("name", r.rel) = {}
        /\ taken("id", r.type) # {}
        /\ Aborts(s)
     \/ /\ taken("name", r.rel) \cup taken("id", r.type) = {}
        /\ types' = types \cup {[name |-> r.rel, id |-> r.type, by |-> s]}
        /\ Goto(s, [at |-> "edge", src |-> r.src, dst |-> r.dst, type |-> r.type])
        /\ UNCHANGED <<memories, vidMap, writerLock, edges>>
  /\ UNCHANGED <<schema, nextVid, told, crashes>>

\* gph_insert_edge addresses vertices by number; one that is not there raises.
ConnectEdge(s) ==
  LET r == req[s] IN
  /\ r.at = "edge"
  /\ writerLock \in {s, NoServer}
  /\ IF r.src < nextVid /\ r.dst < nextVid
     THEN /\ writerLock' = s
          /\ edges' = edges \cup
               {[src |-> r.src, dst |-> r.dst, type |-> r.type, by |-> s]}
          /\ Goto(s, [at |-> "commit"])
          /\ UNCHANGED <<memories, vidMap, types>>
     ELSE Aborts(s)
  /\ UNCHANGED <<schema, nextVid, told, crashes>>

ConnectCommit(s) ==
  /\ req[s].at = "commit"
  /\ Commits(s)
  /\ UNCHANGED <<schema, nextVid, told, crashes>>

-----------------------------------------------------------------------------
(* The reads.  Each statement has a snapshot of its own.                   *)

\* recall: the operator ranks candidates by vid and the join keeps those that
\* are ids of memories; which of them, the ranking decides.
Recall(s, input) ==
  /\ req[s] = Idle
  /\ schema = Dim[s]
  /\ Resolves(s, input)
  /\ Tell(s, Ids(s))
  /\ UNCHANGED <<schema, memories, vidMap, nextVid, writerLock, types, edges, crashes>>

\* The filtered relation of a traversal, and the vids a walk of h hops emits.
Links(s, type) ==
  {e \in Seen(s, edges) : type = AnyType \/ e.type = type}

Out(s, from, type) ==
  {e.dst : e \in {f \in Links(s, type) : f.src \in from}}

\* neighbors: the id of the relation (or any, without one), the traversal, the
\* details.
NeighborsType(s, id, rel) ==
  /\ req[s] = Idle
  /\ id < nextVid
  /\ \E t \in {u.id : u \in Holders(Seen(s, types), "name", rel)} \cup {AnyType} :
       Goto(s, [at |-> "walk", id |-> id, type |-> t])
  /\ UNCHANGED <<schema, memories, vidMap, nextVid, writerLock, types, edges, told,
                 crashes>>

\* One hop, or hops = 2 by gph_traverse_bfs.
NeighborsWalk(s) ==
  LET r == req[s]
      one == Out(s, {r.id}, r.type) IN
  /\ r.at = "walk"
  /\ \E found \in {one, (one \cup Out(s, one, r.type)) \ {r.id}} :
       Goto(s, [at |-> "details", ids |-> found])
  /\ UNCHANGED <<schema, memories, vidMap, nextVid, writerLock, types, edges, told,
                 crashes>>

\* Ids with a row, each once.
Listed(s, found) == found \cap Ids(s)

NeighborsDetails(s) ==
  /\ req[s].at = "details"
  /\ Tell(s, Listed(s, req[s].ids))
  /\ UNCHANGED <<schema, memories, vidMap, nextVid, writerLock, types, edges, crashes>>

\* memory_stats: three counts, each in a snapshot of its own; the first two.
Stats(s) ==
  /\ req[s] = Idle
  /\ schema # NoTable
  /\ Goto(s, [at |-> "count", n |-> Cardinality(Ids(s))])
  /\ UNCHANGED <<schema, memories, vidMap, nextVid, writerLock, types, edges, told,
                 crashes>>

StatsVertices(s) ==
  /\ req[s].at = "count"
  /\ Goto(s, Idle)
  /\ UNCHANGED <<schema, memories, vidMap, nextVid, writerLock, types, edges, told,
                 crashes>>

-----------------------------------------------------------------------------
(* The outside.                                                            *)

\* The connection is lost, or the server is killed and started again.
LoseConnection(s) ==
  /\ req[s] # Idle
  /\ crashes < MaxCrash
  /\ crashes' = crashes + 1
  /\ Aborts(s)
  /\ UNCHANGED <<schema, nextVid, told>>

ServerStep(s) ==
  \/ InitCheck(s) \/ InitCreate(s)
  \/ \E i \in Inputs : StoreStart(s, i) \/ Recall(s, i)
  \/ StoreInsert(s) \/ StoreUpsert(s) \/ StoreCheck(s)
  \/ \E a, b \in MemoryId, rel \in Rels : ConnectStart(s, a, b, rel)
  \/ ConnectType(s) \/ ConnectRegister(s) \/ ConnectEdge(s) \/ ConnectCommit(s)
  \/ \E a \in MemoryId, rel \in Rels : NeighborsType(s, a, rel)
  \/ NeighborsWalk(s) \/ NeighborsDetails(s)
  \/ Stats(s) \/ StatsVertices(s)
  \/ LoseConnection(s)

MemNext == \E s \in Servers : ServerStep(s)

MemSpec == MemInit /\ [][MemNext]_mvars

-----------------------------------------------------------------------------
(* Properties.                                                             *)

\* The identity the joint operator joins on: a committed memory has exactly
\* one vertex and it has the memory's number, with several servers allocating
\* ids from max(id) and transactions that are lost after a vertex took a
\* number (store_memory's drift check).
VidsAreIds ==
  \A m \in Seen(NoServer, memories) :
    {r.vid : r \in Holders(Seen(NoServer, vidMap), "ext", m.id)} = {m.id}

\* What an agent was told is stored stays stored, a traversal lists only
\* memories, though the vertices of lost transactions keep their numbers, an
\* edge joins stored memories by a registered type, and no count shows more
\* memories than vertices (connect's check of both ids, the filter on details
\* in neighbors, the order of memory_stats' statements).
AnswersAreMemories ==
  LET stored == {m.id : m \in Seen(NoServer, memories)} IN
  /\ told \subseteq stored
  /\ \A e \in Seen(NoServer, edges) :
       /\ {e.src, e.dst} \subseteq stored
       /\ Holders(Seen(NoServer, types), "id", e.type) # {}
  /\ \A s \in Servers :
       req[s].at = "count" => req[s].n <= Cardinality(Seen(s, vidMap))

\* Both, of tables of their types: what agents are told of, and join on, are vertices of memories
\* (MemoryStore, tridb_mcp.py:164-330).
MemoriesAreVertices == MemTypeOK /\ VidsAreIds /\ AnswersAreMemories

=============================================================================
