------------------------------ MODULE ShmPools ------------------------------
(***************************************************************************)
(* Pools of shared memory and the buffers carved out of them               *)
(* (src/protocol/wl_shm.rs, src/protocol/wl_shm_pool.rs, the pool functions*)
(* of src/state/compositor_state.rs and ensure_buffer_image of             *)
(* src/scene.rs), for one client.                                          *)
(*                                                                         *)
(* A destroyed pool stays in the table while a buffer names it, and its id *)
(* is the client's to reuse at once, so the table may hold another pool    *)
(* under the id an older buffer names.  A buffer holds the mapping it was  *)
(* made with, its guard.                                                   *)
(*                                                                         *)
(* A descriptor is the number of the create_pool that brought it.  Sizes   *)
(* are in buffers' ends: a buffer ends at 1 or further.  A request the     *)
(* compositor answers with an error and nothing else is not a step: it     *)
(* only starts the disconnect that may come at any time.                   *)
(***************************************************************************)
EXTENDS Naturals, FiniteSets, Functions

CONSTANTS PoolIds,     \* the ids the client uses for pools
          BufferIds,   \* and for buffers
          MaxSize,     \* bound: sizes of pools and of the files behind them
          MaxPools,    \* bound: pools ever made
          None

\* What is assumed of the constants: the bounds are numbers.
PoolsAssumption == MaxSize \in Nat /\ MaxPools \in Nat

VARIABLES
  pools,      \* state.shm_pools: a function on the ids in the table
  buffers,    \* state.buffers: the pool id, the end, and, to compare with, what it was made of
  guards,     \* state.buffer_guards: the mapping of each buffer that has one
  damaged,    \* the buffers whose ShmBuffer::damage is None: all of it is new
  file,       \* the size of the file behind each descriptor
  open,       \* the descriptors that are open
  made,       \* how many pools have been made
  twice,      \* a descriptor was closed that was not open
  connected   \* the client has not gone

vars == <<pools, buffers, guards, damaged, file, open, made, twice, connected>>

Fds == 1 .. MaxPools
Sizes == 1 .. MaxSize
NothingOn == [x \in {} |-> None]

Init ==
  /\ pools = NothingOn
  /\ buffers = NothingOn
  /\ guards = NothingOn
  /\ damaged = {}
  /\ file = [fd \in Fds |-> 0]
  /\ open = {}
  /\ made = 0
  /\ twice = FALSE
  /\ connected = TRUE

With(f, x, y) == [z \in DOMAIN f \cup {x} |-> IF z = x THEN y ELSE f[z]]
Without(f, xs) == Restrict(f, DOMAIN f \ xs)

\* The pool object exists: the id is not free.
IsLive(p) == p \in DOMAIN pools /\ ~ pools[p].dead

\* libc::close.
Close(fds) ==
  /\ open' = open \ fds
  /\ twice' = (twice \/ ~ fds \subseteq open)

\* PoolMapping::new: a file smaller than the pool cannot be mapped.
Mapping(fd, size) == IF size <= file'[fd] THEN [file |-> fd, size |-> size] ELSE None

-----------------------------------------------------------------------------
(* Pools.                                                                  *)

\* The descriptor of the dead pool under the id.
Replaced(p) == IF p \in DOMAIN pools THEN {pools[p].fd} ELSE {}

\* wl_shm.create_pool and register_shm_pool.
CreatePool(p, size, fileSize) ==
  /\ connected /\ ~ IsLive(p)
  /\ made < MaxPools
  /\ made' = made + 1
  /\ file' = [file EXCEPT ![made'] = fileSize]
  /\ pools' = With(pools, p, [fd |-> made', size |-> size, mapping |-> Mapping(made', size),
                              dead |-> FALSE])
  /\ open' = (open \ Replaced(p)) \cup {made'}
  /\ twice' = (twice \/ ~ Replaced(p) \subseteq open)
  /\ UNCHANGED <<buffers, guards, damaged, connected>>

\* try_cleanup_pool for each of `ids', the table being `table' and the buffers
\* `left': dead pools that no buffer names.
Unneeded(table, left, ids) ==
  {p \in ids \cap DOMAIN table : table[p].dead /\ \A b \in DOMAIN left : left[b].pool # p}

CleanUp(table, left, ids) ==
  LET freed == Unneeded(table, left, ids) IN
    /\ pools' = Without(table, freed)
    /\ Close({table[p].fd : p \in freed})

\* wl_shm_pool.destroy and destroy_shm_pool.
DestroyPool(p) ==
  /\ connected /\ IsLive(p)
  /\ CleanUp([pools EXCEPT ![p].dead = TRUE], buffers, {p})
  /\ UNCHANGED <<buffers, guards, damaged, file, made, connected>>

\* wl_shm_pool.resize and resize_shm_pool: a pool only grows.  Every buffer
\* that names the id is marked, also one of an older pool.
Resize(p, size) ==
  /\ connected /\ IsLive(p) /\ size >= pools[p].size
  /\ damaged' = damaged \cup {b \in DOMAIN buffers : buffers[b].pool = p}
  /\ UNCHANGED <<buffers, guards, file, open, made, twice, connected>>
  /\ pools' = [pools EXCEPT ![p].size = size, ![p].mapping = Mapping(pools[p].fd, size)]

-----------------------------------------------------------------------------
(* Buffers.                                                                *)

\* wl_shm_pool.create_buffer: check_geometry and register_buffer.
CreateBuffer(p, b, end) ==
  /\ connected /\ IsLive(p) /\ b \notin DOMAIN buffers
  /\ end <= pools[p].size
  /\ buffers' = With(buffers, b, [pool |-> p, end |-> end,
                                  of |-> IF pools[p].mapping = None THEN None ELSE pools[p].fd])
  /\ guards' = IF pools[p].mapping = None THEN guards ELSE With(guards, b, pools[p].mapping)
  /\ damaged' = damaged \cup {b}
  /\ UNCHANGED <<pools, file, open, made, twice, connected>>

\* Mutant: only destroying the pool itself looks whether it can go.
NoPool(b) == {}

\* The pool to look at when a buffer goes.
ItsPool(b) == {buffers[b].pool}

\* wl_buffer.destroy and destroy_buffer.
DestroyBuffer(b) ==
  /\ connected /\ b \in DOMAIN buffers
  /\ buffers' = Without(buffers, {b})
  /\ guards' = Without(guards, {b})
  /\ damaged' = damaged \ {b}
  /\ CleanUp(pools, Without(buffers, {b}), ItsPool(b))
  /\ UNCHANGED <<file, made, connected>>

\* clear_buffer_damage, when scenes have been built.
Publish ==
  /\ damaged # {}
  /\ damaged' = {}
  /\ UNCHANGED <<pools, buffers, guards, file, open, made, twice, connected>>

\* remove_client_resources: the buffers, then the pools.
Gone ==
  /\ connected
  /\ connected' = FALSE
  /\ buffers' = NothingOn
  /\ guards' = NothingOn
  /\ damaged' = {}
  /\ CleanUp([p \in DOMAIN pools |-> [pools[p] EXCEPT !.dead = TRUE]], NothingOn, DOMAIN pools)
  /\ UNCHANGED <<file, made>>

Next ==
  \/ \E p \in PoolIds :
       \/ \E size, fileSize \in Sizes : CreatePool(p, size, fileSize)
       \/ DestroyPool(p)
       \/ \E size \in Sizes : Resize(p, size)
       \/ \E b \in BufferIds, end \in Sizes : CreateBuffer(p, b, end)
  \/ \E b \in BufferIds : DestroyBuffer(b)
  \/ Publish
  \/ Gone

Spec == Init /\ [][Next]_vars

-----------------------------------------------------------------------------
(* What a scene reads.                                                     *)

\* Mutant: the mapping of the pool the buffer names.
PoolsMapping(b) ==
  IF buffers[b].pool \in DOMAIN pools THEN pools[buffers[b].pool].mapping ELSE None

\* The buffer's own guard.
MappingOf(b) == IF b \in DOMAIN guards THEN guards[b] ELSE None

\* ensure_buffer_image: the file whose memory an image of b borrows, if the
\* buffer ends within the mapping.
ImageOf(b) ==
  LET mapping == MappingOf(b) IN
    IF mapping # None /\ buffers[b].end <= mapping.size THEN mapping.file ELSE None

-----------------------------------------------------------------------------
(* Properties.                                                             *)

Mappings == [file : Fds, size : Sizes]

TypeOK ==
  /\ DOMAIN pools \subseteq PoolIds
  /\ Range(pools) \subseteq [fd : Fds, size : Sizes, mapping : Mappings \cup {None}, dead : BOOLEAN]
  /\ DOMAIN buffers \subseteq BufferIds
  /\ Range(buffers) \subseteq [pool : PoolIds, end : Sizes, of : Fds \cup {None}]
  /\ DOMAIN guards \subseteq DOMAIN buffers
  /\ Range(guards) \subseteq Mappings
  /\ damaged \subseteq DOMAIN buffers
  /\ file \in [Fds -> 0 .. MaxSize]
  /\ open \subseteq Fds
  /\ made \in 0 .. MaxPools
  /\ twice \in BOOLEAN /\ connected \in BOOLEAN

\* A buffer is drawn from the memory it was made of for as long as it lives,
\* whatever becomes of its pool and of the pool's id, and one made while its
\* pool was not mapped is not drawn (the buffer guards, ensure_buffer_image).
ReadsItsOwnMemory == \A b \in DOMAIN buffers : ImageOf(b) = buffers[b].of

\* Every open descriptor is that of a pool in the table, none is closed twice,
\* and no dead pool stays there that no buffer names: nothing leaks, not even
\* when an id is reused or the client goes (try_cleanup_pool, register_shm_pool,
\* remove_client_resources).
NoneLeaksNoneTwice ==
  /\ open = {pools[p].fd : p \in DOMAIN pools}
  /\ ~ twice
  /\ Unneeded(pools, buffers, PoolIds) = {}
  /\ ~ connected => pools = NothingOn
=============================================================================
