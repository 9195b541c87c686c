------------------------------- MODULE Ledger -------------------------------
(***************************************************************************)
(* The block ledger on disk with its cache: MonadBlockFileLedger over      *)
(* FileBlockPersist.  A command of consensus is a list of file operations, *)
(* and the process may die between any two of them.                        *)
(* Source: monad-ledger/src/lib.rs, monad-block-persist/src/lib.rs.        *)
(***************************************************************************)
EXTENDS Integers, Sequences, FiniteSets, FiniteSetsExt

CONSTANTS
    Block, None,
    Body,              \* Body[b]: body id of b, which blocks may share
    block_round,       \* block_round[b]
    block_cache_size,
    MaxCrashes         \* bound on crashes

VARIABLES
    headers, bodies,   \* files: name -> "absent" | "torn" | "whole"
    head,              \* symlinks: "proposed" | "voted" | "finalized" -> block
    wip,               \* links that were made and not renamed yet
    block_cache_index, \* blocks, one a round, that count for the size
    block_cache,
    payload_cache,     \* block_payload_cache
    todo,              \* operations left of the command in hand
    proposed,          \* blocks proposed to this process
    panicked,          \* has an unwrap failed?
    crashes

vars == <<headers, bodies, head, wip, block_cache_index, block_cache, payload_cache, todo, proposed, panicked, crashes>>
disk == <<headers, bodies, head, wip>>
cache == <<block_cache_index, block_cache, payload_cache>>

Heads == {"proposed", "voted", "finalized"}
Op(op, b) == [op |-> op, block |-> b, link |-> None]
LinkOps(link, b) == <<[op |-> "symlink", block |-> b, link |-> link], [op |-> "rename", block |-> b, link |-> link]>>
(* Mutant: the header first                                                *)
WriteOpsHeaderFirst(b) ==
    <<Op("create_header", b), Op("write_header", b), Op("create_body", b), Op("write_body", b)>>
WriteOps(b) == <<Op("create_body", b), Op("write_body", b), Op("create_header", b), Op("write_header", b)>>

Init ==
    /\ headers = [b \in Block |-> "absent"]
    /\ bodies = [p \in {Body[b] : b \in Block} |-> "absent"]
    /\ head = [h \in Heads |-> None] /\ wip = {}
    /\ block_cache_index = {} /\ block_cache = {} /\ payload_cache = {}
    /\ todo = <<>> /\ proposed = {} /\ panicked = FALSE /\ crashes = 0

Idle == todo = <<>> /\ ~panicked

-----------------------------------------------------------------------------
(* LedgerCommit, in the order consensus issues them: a block is proposed   *)
(* to a process before it is voted or finalized by it (FinalizedChain).    *)
CommitProposed(b, is_canonical) ==
    /\ Idle
    /\ todo' = WriteOps(b) \o (IF is_canonical THEN LinkOps("proposed", b) ELSE <<>>) \o <<Op("update_cache", b)>>
    /\ proposed' = proposed \cup {b}
    /\ UNCHANGED <<disk, cache, panicked, crashes>>

CommitVoted(b) ==
    /\ Idle /\ b \in proposed
    /\ todo' = <<Op("update_cache", b)>> \o LinkOps("voted", b)
    /\ UNCHANGED <<disk, cache, proposed, panicked, crashes>>

CommitFinalized(b) ==
    /\ Idle /\ b \in proposed
    /\ todo' = LinkOps("finalized", b)
    /\ UNCHANGED <<disk, cache, proposed, panicked, crashes>>

-----------------------------------------------------------------------------
(* A file that exists is left as it is: only its timestamp is renewed, and *)
(* the write that would follow is skipped with the creation.               *)
Create(files, name) == IF files[name] = "absent" THEN [files EXCEPT ![name] = "torn"] ELSE files
AfterCreate(files, name) == IF files[name] = "absent" THEN Tail(todo) ELSE Tail(Tail(todo))

CreateBody(b) ==
    /\ bodies' = Create(bodies, Body[b])
    /\ todo' = AfterCreate(bodies, Body[b])
    /\ UNCHANGED <<headers, head, wip, cache, panicked>>

WriteBody(b) ==
    /\ bodies' = [bodies EXCEPT ![Body[b]] = "whole"]
    /\ todo' = Tail(todo)
    /\ UNCHANGED <<headers, head, wip, cache, panicked>>

CreateHeader(b) ==
    /\ headers' = Create(headers, b)
    /\ todo' = AfterCreate(headers, b)
    /\ UNCHANGED <<bodies, head, wip, cache, panicked>>

WriteHeader(b) ==
    /\ headers' = [headers EXCEPT ![b] = "whole"]
    /\ todo' = Tail(todo)
    /\ UNCHANGED <<bodies, head, wip, cache, panicked>>

(* atomic_symlink_update: symlink fails if the .wip link is there already. *)
Symlink(link) ==
    /\ panicked' = (link \in wip)
    /\ wip' = wip \cup {link}
    /\ todo' = Tail(todo)
    /\ UNCHANGED <<headers, bodies, head, cache>>

Rename(link, b) ==
    /\ head' = [head EXCEPT ![link] = b]
    /\ wip' = wip \ {link}
    /\ todo' = Tail(todo)
    /\ UNCHANGED <<headers, bodies, cache, panicked>>

(* One block a round, the lowest rounds evicted first; what is evicted     *)
(* takes its body along, also when another block has the same.  A block    *)
(* that is itself the one evicted from the index is cached all the same.   *)
UpdateCache(b) ==
    LET replaced == {x \in block_cache_index : block_round[x] = block_round[b]}
        next == (block_cache_index \ replaced) \cup {b}
        evicted == IF Cardinality(next) <= block_cache_size THEN {}
                   ELSE {x \in next : \A y \in next : block_round[x] <= block_round[y]}
    IN /\ block_cache_index' = next \ evicted
       /\ block_cache' = (block_cache \ (replaced \cup evicted)) \cup {b}
       /\ payload_cache' = (payload_cache \ {Body[x] : x \in replaced \cup evicted}) \cup {Body[b]}
       /\ todo' = Tail(todo)
       /\ UNCHANGED <<disk, panicked>>

Step ==
    /\ todo # <<>> /\ ~panicked
    /\ LET o == Head(todo) IN
         \/ o.op = "create_body" /\ CreateBody(o.block)
         \/ o.op = "write_body" /\ WriteBody(o.block)
         \/ o.op = "create_header" /\ CreateHeader(o.block)
         \/ o.op = "write_header" /\ WriteHeader(o.block)
         \/ o.op = "symlink" /\ Symlink(o.link)
         \/ o.op = "rename" /\ Rename(o.link, o.block)
         \/ o.op = "update_cache" /\ UpdateCache(o.block)
    /\ UNCHANGED <<proposed, crashes>>

(* The process dies and starts again with what is on disk.                 *)
Crash ==
    /\ crashes < MaxCrashes
    /\ crashes' = crashes + 1
    /\ block_cache_index' = {} /\ block_cache' = {} /\ payload_cache' = {}
    /\ todo' = <<>> /\ proposed' = {} /\ panicked' = FALSE
    /\ UNCHANGED disk

Next ==
    \/ \E b \in Block, is_canonical \in BOOLEAN : CommitProposed(b, is_canonical)
    \/ \E b \in Block : CommitVoted(b) \/ CommitFinalized(b)
    \/ Step
    \/ Crash

Spec == Init /\ [][Next]_vars

-----------------------------------------------------------------------------
(* The files of a block appear in an order that survives a crash: a header *)
(* file has a body file, a head link names a header file, and "all reads   *)
(* are backed by disk": nothing is cached without its files.               *)
DiskOrdered ==
    /\ \A b \in Block : headers[b] # "absent" => bodies[Body[b]] # "absent"
    /\ \A h \in Heads : head[h] # None => headers[head[h]] # "absent"
    /\ \A b \in block_cache : headers[b] # "absent"
    /\ \A p \in payload_cache : bodies[p] # "absent"

(* "write payload first so that header always points to payload that       *)
(* exists": a header that can be read has a body that can be read.         *)
HeaderHasBody == \A b \in Block : headers[b] = "whole" => bodies[Body[b]] = "whole"
=============================================================================
