----------------------------- MODULE WeightCache -----------------------------
(***************************************************************************)
(* Where the CUDA backend reads a weight from (src/ds4_gb10/ds4_cuda.cu,   *)
(* opened and preloaded by ds4.c): a copy or a registration of the whole   *)
(* map, ranges uploaded from the file through a ring of pinned buffers,    *)
(* ranges registered or copied one by one, or the map itself, as a device  *)
(* with access to host memory can; and the weights expanded to f16.        *)
(* Sizes and offsets are in units of half a page.                          *)
(***************************************************************************)
EXTENDS Integers, Sequences, FiniteSets, FiniteSetsExt, SequencesExt, TLC

CONSTANTS
    MapSize,        \* units of each model file; "main" is one of them
    Tensors,       \* the tensors: map, offset, units
    Dense,          \* those kernels ask for in f16
    MaxSpan,        \* DS4_CUDA_WEIGHT_PRELOAD_SPAN_MB, in units
    MaxGap,         \* 64 KiB between tensors that are preloaded together
    Buffers,        \* 4 staging buffers
    CopyChunk,      \* units uploaded at a time
    Align,          \* units a direct read is aligned to
    ArenaUnits,     \* units of an arena
    CacheLimit,     \* DS4_CUDA_WEIGHT_CACHE_LIMIT_GB
    Switches,       \* environments the process may start in
    MaxCalls, MaxOpens, MaxFailures     \* bounds of the model

\* Tensors without bytes are skipped, one outside its file ends the process.
ASSUME WeightAssumption ==
    /\ {MaxSpan, CopyChunk, Buffers, Align} \subseteq Nat \ {0}
    /\ MapSize \in [DOMAIN MapSize -> Nat] /\ "main" \in DOMAIN MapSize
    /\ \A w \in Tensors : /\ w \in [map : DOMAIN MapSize, off : Nat, n : Nat \ {0}]
                          /\ w.off + w.n <= MapSize[w.map]
    /\ {ArenaUnits, MaxGap} \subseteq Nat
    /\ Switches \subseteq [{"copy", "chunked", "cache", "direct_model", "direct_io", "no_fd",
                            "strict", "f16"} -> BOOLEAN]

VARIABLES
    env,            \* the process's switches
    phase,          \* of the engine: closed, map_main, map_mtp, preload, running, failed
    hasDraft,       \* a draft model is opened too
    model,          \* host map, where the device reads it, and the flags beside
    ranges, byOffset,       \* g_model_ranges, g_model_range_by_offset
    arenas,
    f16, f16ByOffset, f16Off,   \* expanded weights; disabled after a failure
    memory,         \* device allocations: what each unit holds
    buffers,        \* staging buffers: what each unit holds
    copies,         \* queued on the upload stream
    inUse,       \* allocations launched kernels use
    todo,           \* still to preload: tensors, and what is left of a span
    fetch,          \* the weight being fetched
    answer,         \* the last weight fetched and where it can be read
    budget          \* calls, opens and failures left

wvars == <<env, phase, hasDraft, model, ranges, byOffset, arenas, f16, f16ByOffset, f16Off, memory,
           buffers, copies, inUse, todo, fetch, answer, budget>>
cacheVars == <<ranges, byOffset, arenas>>
f16Vars == <<f16, f16ByOffset, f16Off>>
streamVars == <<buffers, copies, inUse>>

Maps == DOMAIN MapSize
NoMap == "none"
NoFetch == [step |-> "idle"]
NoAnswer == [given |-> FALSE]
EmptyBuffers ==
    [b \in 0..(Buffers - 1) |-> [i \in 0..(CopyChunk + Align - 1) |-> <<"unset">>]]
Closed == [host |-> NoMap, size |-> 0, base |-> <<"host">>, hmm |-> FALSE, mapping |-> TRUE,
           full |-> FALSE, fd |-> FALSE, fdMap |-> NoMap, direct |-> FALSE]
SmallerOf(a, b) == IF a <= b THEN a ELSE b
DownTo(v, a) == (v \div a) * a
UpTo(v, a) == ((v + a - 1) \div a) * a

(* A pointer: into a map through the host, into a registration of it, or
   into a device allocation.                                               *)
HostPtr(map, off) == <<"host", map, off>>
RegPtr(map, off) == <<"reg", map, off>>
DevPtr(id, i) == <<"dev", id, i>>
Fresh == CHOOSE id \in 1..(Cardinality(DOMAIN memory) + 1) : id \notin DOMAIN memory
Allocated(n) == [id \in DOMAIN memory \cup {Fresh} |->
                    IF id = Fresh THEN [i \in 0..(n - 1) |-> <<"unset">>] ELSE memory[id]]
Without(ids) == [id \in DOMAIN memory \ ids |-> memory[id]]
HostUnits(map, off, n) == [i \in 0..(n - 1) |-> <<map, off + i>>]

Fails == budget.failures > 0
Charge(fails) == [budget EXCEPT !.failures = @ - (IF fails THEN 1 ELSE 0)]

-----------------------------------------------------------------------------
(* Opening: the file, the map, the draft's map, the preload. *)
OwnedIds == IF model.base[1] = "dev" THEN {model.base[2]} ELSE {}
RangeIdsNone == {}      \* mutant: a range copied on its own is taken for an arena's
RangeIds ==
    {r.ptr[2] : r \in {r \in Range(ranges) : r.ptr[1] = "dev" /\ ~r.arena}}
ArenaIds == {a.id : a \in Range(arenas)}
F16Ids == {w.id : w \in Range(f16)}

OpenEngine ==
    /\ phase = "closed" /\ budget.opens > 0
    /\ hasDraft' \in {FALSE} \cup {m \in {TRUE} : "mtp" \in Maps}
    /\ model' = [model EXCEPT !.fd = TRUE, !.fdMap = model.host, !.direct = env.direct_io]
    /\ phase' = "map_main"
    /\ budget' = [budget EXCEPT !.opens = @ - 1]
    /\ UNCHANGED <<env, memory, todo, fetch, answer>> /\ UNCHANGED <<cacheVars, f16Vars, streamVars>>

(* ds4_gpu_set_model_map_range: nothing of the map before survives; then a
   copy, a registration, a chunked copy or a prefetch, as they are asked for
   and succeed.                                                            *)
MapOutcomes ==
    {o \in [copied : BOOLEAN, registered : BOOLEAN, chunked : BOOLEAN, prefetched : BOOLEAN] :
        /\ o.copied => env.copy
        /\ o.registered => ~o.copied
        /\ o.chunked => /\ env.chunked /\ ~env.cache /\ ~env.direct_model
                        /\ ~o.copied /\ ~o.registered
        /\ o.prefetched => env.chunked /\ ~env.cache /\ ~env.copy /\ ~o.chunked /\ ~o.registered}

SetMap(map, next) ==
    /\ \E o \in MapOutcomes :
          LET kept == Without(RangeIds \cup ArenaIds \cup F16Ids \cup OwnedIds)
              whole == o.copied \/ o.chunked
              new == CHOOSE id \in 1..(Cardinality(DOMAIN kept) + 1) : id \notin DOMAIN kept
          IN  /\ memory' = IF whole
                           THEN [id \in DOMAIN kept \cup {new} |->
                                   IF id = new THEN HostUnits(map, 0, MapSize[map]) ELSE kept[id]]
                           ELSE kept
              /\ model' = [model EXCEPT
                     !.host = map, !.size = MapSize[map],
                     !.base = IF whole THEN <<"dev", new>>
                              ELSE IF o.registered THEN <<"reg">> ELSE <<"host">>,
                     !.hmm = o.prefetched, !.mapping = TRUE, !.full = FALSE,
                     !.fdMap = IF model.fd /\ model.fdMap = NoMap THEN map ELSE @]
    /\ ranges' = <<>> /\ byOffset' = <<>> /\ arenas' = <<>>
    /\ f16' = <<>> /\ f16ByOffset' = <<>> /\ f16Off' = FALSE
    /\ phase' = next
    /\ UNCHANGED <<env, hasDraft, fetch, answer, budget>> /\ UNCHANGED streamVars

(* Spans to preload: of the tensors left, in the order of their places, the
   first and those that join it, neighbours up to MaxSpan.                 *)
NoSpan == [left |-> {}, off |-> 0, end |-> 0]
End(w) == w.off + w.n
Before(v, w) == v.off < w.off \/ (v.off = w.off /\ v.n <= w.n)
FirstOf(left) == CHOOSE w \in left : \A v \in left : Before(w, v)
Joins(left, w) ==
    /\ w.off <= Max({End(v) : v \in {v \in left \ {w} : Before(v, w)}}) + MaxGap
    /\ End(w) - FirstOf(left).off <= MaxSpan
OneSpan(left) ==
    {w \in left : \A v \in left : Before(v, w) => v = FirstOf(left) \/ Joins(left, v)}
NextSpan ==
    IF todo.off < todo.end THEN todo
    ELSE [left |-> todo.left \ OneSpan(todo.left), off |-> FirstOf(todo.left).off,
          end |-> Max({End(w) : w \in OneSpan(todo.left)})]
AllPreloaded == todo.off >= todo.end /\ todo.left = {}

MapMain ==
    /\ phase = "map_main"
    /\ SetMap("main", IF hasDraft THEN "map_mtp" ELSE IF env.direct_model THEN "running" ELSE "preload")
    /\ todo' = IF hasDraft \/ env.direct_model THEN NoSpan
               ELSE [NoSpan EXCEPT !.left = {w \in Tensors : w.map = "main"}]
MapMtp == phase = "map_mtp" /\ SetMap("mtp", "running") /\ UNCHANGED todo

-----------------------------------------------------------------------------
(* Looking a range up (cuda_model_range_ptr). *)
MapPtr(map, off) ==
    IF map # model.host THEN HostPtr(map, off)
    ELSE CASE model.base[1] = "dev" -> DevPtr(model.base[2], off)
           [] model.base[1] = "reg" -> RegPtr(map, off)
           [] OTHER -> HostPtr(map, off)
WholeMap == model.base[1] \in {"dev", "reg"}
UseMap == WholeMap \/ (model.hmm /\ ~env.cache) \/ env.direct_model

Inside(w, r) == r.map = w.map /\ w.off >= r.off /\ w.off + w.n <= r.off + r.n
InRegion(w, r) == r.map = w.map /\ r.ptr[1] = "reg" /\ w.off >= r.lo /\ w.off + w.n <= r.hi
ExactAnyMap(w) ==       \* mutant: the offset alone decides
    {i \in {byOffset[o] : o \in DOMAIN byOffset \cap {w.off}} : w.n <= ranges[i].n}
Exact(w) ==
    {i \in {byOffset[o] : o \in DOMAIN byOffset \cap {w.off}} :
        ranges[i].map = w.map /\ w.n <= ranges[i].n}
Holding(w) == {i \in DOMAIN ranges : Inside(w, ranges[i]) \/ InRegion(w, ranges[i])}
Beyond(ptr, by) == <<ptr[1], ptr[2], ptr[3] + by>>
Found(w) ==
    IF Exact(w) # {} THEN ranges[CHOOSE i \in Exact(w) : TRUE].ptr
    ELSE LET r == ranges[Min(Holding(w))]
         IN  IF Inside(w, r) THEN Beyond(r.ptr, w.off - r.off) ELSE RegPtr(w.map, w.off)
IsCached(w) == WholeMap \/ Holding(w) # {}

CachedUnits == MapThenSumSet(LAMBDA i : IF ranges[i].ptr[1] = "dev" THEN ranges[i].n ELSE 0,
                             DOMAIN ranges)
FromFile(w) == model.fd /\ (model.fdMap # NoMap => w.map = model.fdMap)

Begin(w, kind) ==
    IF UseMap THEN [step |-> "have", w |-> w, kind |-> kind, ptr |-> MapPtr(w.map, w.off)]
    ELSE IF Exact(w) # {} \/ Holding(w) # {}
    THEN [step |-> "have", w |-> w, kind |-> kind, ptr |-> Found(w)]
    ELSE IF env.no_fd \/ ~FromFile(w) THEN [step |-> "map", w |-> w, kind |-> kind]
    ELSE IF w.n > CacheLimit - CachedUnits
    THEN [step |-> "have", w |-> w, kind |-> kind, ptr |-> MapPtr(w.map, w.off)]
    ELSE [step |-> "arena", w |-> w, kind |-> kind]

\* What is longer than MaxSpan is preloaded in pieces.
Preload ==
    /\ phase = "preload" /\ fetch = NoFetch /\ ~AllPreloaded
    /\ LET n == SmallerOf(NextSpan.end - NextSpan.off, MaxSpan)
       IN  /\ fetch' = Begin([map |-> "main", off |-> NextSpan.off, n |-> n], "span")
           /\ todo' = [NextSpan EXCEPT !.off = @ + n]
    /\ UNCHANGED <<env, phase, hasDraft, model, memory, answer, budget>>
    /\ UNCHANGED <<cacheVars, f16Vars, streamVars>>

Preloaded ==
    /\ phase = "preload" /\ fetch = NoFetch /\ AllPreloaded
    /\ phase' = "running"
    /\ UNCHANGED <<env, hasDraft, model, memory, todo, fetch, answer, budget>>
    /\ UNCHANGED <<cacheVars, f16Vars, streamVars>>

(* A kernel of the running engine wants a weight, as it is or in f16; the
   f16 form is looked for first.                                           *)
F16Hit(w) == {i \in {f16ByOffset[o] : o \in DOMAIN f16ByOffset \cap {w.off}} :
                 f16[i].map = w.map /\ f16[i].n = w.n}
Want ==
    /\ phase = "running" /\ fetch = NoFetch /\ budget.calls > 0
    /\ \E w \in Tensors :
          /\ w.map = "mtp" => hasDraft
          /\ \E kind \in {"raw"} \cup {k \in {"f16"} : w \in Dense} :
                fetch' = Begin(w, kind)
    /\ budget' = [budget EXCEPT !.calls = @ - 1]
    /\ UNCHANGED <<env, phase, hasDraft, model, memory, todo, answer>>
    /\ UNCHANGED <<cacheVars, f16Vars, streamVars>>

-----------------------------------------------------------------------------
(* Uploading from the file (cuda_model_range_ptr_from_fd): a place in an
   arena, chunks through the ring of buffers, a wait for the stream.       *)
Room(w) == {i \in DOMAIN arenas : w.n <= arenas[i].size - arenas[i].used}
Upload(w, kind, id, at) ==
    [step |-> "upload", w |-> w, kind |-> kind, id |-> id, at |-> at, copied |-> 0, chunk |-> 0]
Instead(w, kind) ==     \* no place on the device
    IF env.strict THEN [step |-> "map", w |-> w, kind |-> kind]
    ELSE [step |-> "have", w |-> w, kind |-> kind, ptr |-> MapPtr(w.map, w.off)]

ArenaAlloc ==
    /\ fetch.step = "arena"
    /\ LET w == fetch.w
           i == Min(Room(w))
           size == IF w.n > ArenaUnits THEN w.n ELSE ArenaUnits
       IN  \/ /\ model.full
              /\ fetch' = Instead(w, fetch.kind)
              /\ UNCHANGED <<model, arenas, memory, budget>>
           \/ /\ ~model.full /\ Room(w) # {}
              /\ arenas' = [arenas EXCEPT ![i].used = @ + w.n]
              /\ fetch' = Upload(w, fetch.kind, arenas[i].id, arenas[i].used)
              /\ UNCHANGED <<model, memory, budget>>
           \/ /\ ~model.full /\ Room(w) = {}
              /\ arenas' = Append(arenas, [id |-> Fresh, size |-> size, used |-> w.n])
              /\ memory' = Allocated(size)
              /\ fetch' = Upload(w, fetch.kind, Fresh, 0)
              /\ UNCHANGED <<model, budget>>
           \/ /\ ~model.full /\ Room(w) = {} /\ Fails
              /\ model' = [model EXCEPT !.full = TRUE]
              /\ fetch' = Instead(w, fetch.kind) /\ budget' = Charge(TRUE)
              /\ UNCHANGED <<arenas, memory>>
    /\ UNCHANGED <<env, phase, hasDraft, ranges, byOffset, todo, answer>>
    /\ UNCHANGED <<f16Vars, streamVars>>

(* A direct read takes whole aligned blocks, into a buffer that has a block
   to spare; the end of the file is read plainly.                          *)
DirectFits(off, n) ==
    LET start == DownTo(off, Align)
        size == UpTo(off - start + n, Align)
    IN  size <= CopyChunk + Align /\ start + size <= MapSize["main"]
DirectRead(off, n) ==
    LET start == DownTo(off, Align)
    IN  [from |-> off - start, units |-> HostUnits("main", start, UpTo(off - start + n, Align))]
PlainRead(off, n) == [from |-> 0, units |-> HostUnits("main", off, n)]
Overwritten(old, units) ==
    [i \in DOMAIN old \cup DOMAIN units |-> IF i \in DOMAIN units THEN units[i] ELSE old[i]]

BufferReusableLate(bi) ==   \* mutant: the first time round again is not waited for
    fetch.chunk > Buffers => \A c \in Range(copies) : c.buffer # bi
BufferReusable(bi) == fetch.chunk >= Buffers => \A c \in Range(copies) : c.buffer # bi

UploadChunk ==
    /\ fetch.step = "upload" /\ fetch.copied < fetch.w.n
    /\ LET bi == fetch.chunk % Buffers
           n == SmallerOf(fetch.w.n - fetch.copied, CopyChunk)
           off == fetch.w.off + fetch.copied
           direct == model.direct /\ DirectFits(off, n)
       IN  /\ BufferReusable(bi)
           /\ \E refused \in {FALSE} \cup {r \in {TRUE} : direct /\ Fails} :
                 LET read == IF direct /\ ~refused THEN DirectRead(off, n) ELSE PlainRead(off, n)
                 IN  /\ buffers' = [buffers EXCEPT ![bi] = Overwritten(@, read.units)]
                     /\ copies' = Append(copies, [id |-> fetch.id, at |-> fetch.at + fetch.copied,
                                                  buffer |-> bi, from |-> read.from, n |-> n])
                     /\ \E forGood \in {refused, FALSE} :
                           model' = [model EXCEPT !.direct = @ /\ ~forGood]
                     /\ budget' = Charge(refused)
           /\ fetch' = [fetch EXCEPT !.copied = @ + n, !.chunk = @ + 1]
    /\ UNCHANGED <<env, phase, hasDraft, memory, inUse, todo, answer>>
    /\ UNCHANGED <<cacheVars, f16Vars>>

(* A read or a copy fails: the place in the arena is lost, copies already
   queued still run.                                                       *)
UploadFails ==
    /\ fetch.step = "upload" /\ Fails
    /\ fetch' = [step |-> "map", w |-> fetch.w, kind |-> fetch.kind]
    /\ budget' = Charge(TRUE)
    /\ UNCHANGED <<env, phase, hasDraft, model, memory, todo, answer>>
    /\ UNCHANGED <<cacheVars, f16Vars, streamVars>>

CopyDone ==
    /\ copies # <<>>
    /\ LET c == Head(copies)
       IN  memory' = [memory EXCEPT ![c.id] =
               [i \in DOMAIN @ |-> IF i \in c.at..(c.at + c.n - 1)
                                   THEN buffers[c.buffer][c.from + i - c.at] ELSE @[i]]]
    /\ copies' = Tail(copies)
    /\ UNCHANGED <<env, phase, hasDraft, model, buffers, inUse, todo, fetch, answer, budget>>
    /\ UNCHANGED <<cacheVars, f16Vars>>

Keep(w, ptr, arena, lo, hi) ==
    /\ ranges' = Append(ranges, [map |-> w.map, off |-> w.off, n |-> w.n, ptr |-> ptr,
                                 arena |-> arena, lo |-> lo, hi |-> hi])
    /\ byOffset' = [o \in DOMAIN byOffset \cup {w.off} |->
                       IF o = w.off THEN Len(ranges) + 1 ELSE byOffset[o]]
    /\ fetch' = [step |-> "have", w |-> w, kind |-> fetch.kind, ptr |-> ptr]

UploadEnd ==
    /\ fetch.step = "upload" /\ fetch.copied = fetch.w.n /\ copies = <<>>
    /\ Keep(fetch.w, DevPtr(fetch.id, fetch.at), TRUE, 0, 0)
    /\ UNCHANGED <<env, phase, hasDraft, model, arenas, memory, todo, answer, budget>>
    /\ UNCHANGED <<f16Vars, streamVars>>

-----------------------------------------------------------------------------
(* No file for this map, or the upload failed: register the pages of the
   range, unless that is known not to work or one is registered already;
   else a copy of its own.                                                 *)
RegisterRange ==
    /\ fetch.step = "map" /\ model.mapping
    /\ LET w == fetch.w
           lo == DownTo(w.off, 2)
           hi == UpTo(w.off + w.n, 2)
           taken(r) == r.map = w.map /\ r.ptr[1] = "reg" /\ r.lo < hi /\ lo < r.hi
       IN  /\ \A r \in Range(ranges) : ~taken(r)
           /\ Keep(w, RegPtr(w.map, w.off), FALSE, lo, hi)
    /\ UNCHANGED <<env, phase, hasDraft, model, arenas, memory, todo, answer, budget>>
    /\ UNCHANGED <<f16Vars, streamVars>>
RegisterFails ==
    /\ fetch.step = "map"
    /\ \E supported \in {model.mapping, FALSE} : model' = [model EXCEPT !.mapping = supported]
    /\ fetch' = [fetch EXCEPT !.step = "copy"]
    /\ UNCHANGED <<env, phase, hasDraft, memory, todo, answer, budget>>
    /\ UNCHANGED <<cacheVars, f16Vars, streamVars>>

CopyRange ==
    /\ fetch.step = "copy"
    /\ memory' = [Allocated(fetch.w.n) EXCEPT ![Fresh] = HostUnits(fetch.w.map, fetch.w.off, fetch.w.n)]
    /\ Keep(fetch.w, DevPtr(Fresh, 0), FALSE, 0, 0)
    /\ UNCHANGED <<env, phase, hasDraft, model, arenas, todo, answer, budget>>
    /\ UNCHANGED <<f16Vars, streamVars>>

Nowhere ==      \* no memory for the copy: the preload or the kernel fails
    /\ fetch.step = "copy" /\ Fails
    /\ fetch' = NoFetch /\ budget' = Charge(TRUE)
    /\ phase' = IF fetch.kind = "span" THEN "failed" ELSE phase
    /\ UNCHANGED <<env, hasDraft, model, memory, todo, answer>>
    /\ UNCHANGED <<cacheVars, f16Vars, streamVars>>

-----------------------------------------------------------------------------
(* The range is there.  The preload wants it cached; a kernel is launched. *)
IdsOf(ptr) == IF ptr[1] = "dev" THEN {ptr[2]} ELSE {}
Launch(w, form, ptr) ==
    /\ answer' = [given |-> TRUE, w |-> w, form |-> form, ptr |-> ptr]
    /\ inUse' = inUse \cup IdsOf(ptr)
    /\ fetch' = NoFetch

SpanDone ==
    /\ fetch.step = "have" /\ fetch.kind = "span"
    /\ phase' = IF IsCached(fetch.w) THEN phase ELSE "failed"
    /\ fetch' = NoFetch
    /\ UNCHANGED <<env, hasDraft, model, memory, todo, answer, budget>>
    /\ UNCHANGED <<cacheVars, f16Vars, streamVars>>

(* The expansion is not off; whether the memory left allows it is open. *)
MayExpand == env.f16 /\ ~f16Off

(* The q8 kernels; also when the expansion is off, or memory is short. *)
UseRaw ==
    /\ fetch.step = "have" /\ (fetch.kind = "raw" \/ (fetch.kind = "f16" /\ F16Hit(fetch.w) = {}))
    /\ Launch(fetch.w, "raw", fetch.ptr)
    /\ UNCHANGED <<env, phase, hasDraft, model, memory, buffers, copies, todo, budget>>
    /\ UNCHANGED <<cacheVars, f16Vars>>

UseF16 ==
    /\ fetch.step = "have" /\ fetch.kind = "f16" /\ F16Hit(fetch.w) # {}
    /\ Launch(fetch.w, "f16", DevPtr(f16[CHOOSE i \in F16Hit(fetch.w) : TRUE].id, 0))
    /\ UNCHANGED <<env, phase, hasDraft, model, memory, buffers, copies, todo, budget>>
    /\ UNCHANGED <<cacheVars, f16Vars>>

Unit(ptr, k) ==
    CASE ptr[1] = "host" -> <<ptr[2], ptr[3] + k>>
      [] ptr[1] = "reg" ->
           IF \/ model.base[1] = "reg" /\ model.host = ptr[2]
              \/ \E r \in Range(ranges) :
                    r.map = ptr[2] /\ r.ptr[1] = "reg" /\ ptr[3] + k \in r.lo..(r.hi - 1)
           THEN <<ptr[2], ptr[3] + k>> ELSE <<"unregistered">>
      [] ptr[1] = "dev" -> IF ptr[2] \in DOMAIN memory THEN memory[ptr[2]][ptr[3] + k] ELSE <<"freed">>

Expand ==
    /\ fetch.step = "have" /\ fetch.kind = "f16" /\ F16Hit(fetch.w) = {}
    /\ MayExpand
    /\ memory' = [Allocated(fetch.w.n) EXCEPT ![Fresh] =
                     [i \in 0..(fetch.w.n - 1) |-> <<"f16", Unit(fetch.ptr, i)>>]]
    /\ f16' = Append(f16, [map |-> fetch.w.map, off |-> fetch.w.off, n |-> fetch.w.n, id |-> Fresh])
    /\ f16ByOffset' = [o \in DOMAIN f16ByOffset \cup {fetch.w.off} |->
                          IF o = fetch.w.off THEN Len(f16) + 1 ELSE f16ByOffset[o]]
    /\ inUse' = inUse \cup {Fresh} \cup IdsOf(fetch.ptr)
    /\ UNCHANGED <<env, phase, hasDraft, model, f16Off, buffers, copies, todo, fetch, answer, budget>>
    /\ UNCHANGED cacheVars

(* No memory for the expansion, or the product with it is refused: every
   expansion is freed, once nothing runs, and none is made again.          *)
DeviceIdleSkipped == TRUE       \* mutant: freed without a synchronisation
DeviceIdle == inUse = {} /\ copies = <<>>
DisableF16 ==
    /\ fetch.step = "have" /\ fetch.kind = "f16" /\ Fails /\ MayExpand
    /\ f16 # <<>> => DeviceIdle
    /\ memory' = Without(F16Ids)
    /\ f16' = <<>> /\ f16ByOffset' = <<>> /\ f16Off' = TRUE
    /\ Launch(fetch.w, "raw", fetch.ptr)
    /\ budget' = Charge(TRUE)
    /\ UNCHANGED <<env, phase, hasDraft, model, buffers, copies, todo>>
    /\ UNCHANGED cacheVars

KernelsDone ==
    /\ inUse # {} /\ inUse' = {}
    /\ UNCHANGED <<env, phase, hasDraft, model, memory, buffers, copies, todo, fetch, answer, budget>>
    /\ UNCHANGED <<cacheVars, f16Vars>>

(* ds4_engine_close, ds4_gpu_cleanup: after a synchronisation all is freed. *)
CloseEngine ==
    /\ phase \in {"running", "failed"} /\ fetch = NoFetch /\ DeviceIdle
    /\ memory' = Without(RangeIds \cup ArenaIds \cup F16Ids \cup OwnedIds)
    /\ model' = [Closed EXCEPT !.fdMap = model.fdMap]
    /\ ranges' = <<>> /\ byOffset' = <<>> /\ arenas' = <<>>
    /\ f16' = <<>> /\ f16ByOffset' = <<>> /\ f16Off' = FALSE
    /\ buffers' = EmptyBuffers
    /\ phase' = "closed" /\ todo' = NoSpan /\ answer' = NoAnswer
    /\ UNCHANGED <<env, hasDraft, copies, inUse, fetch, budget>>

WInit ==
    /\ env \in Switches
    /\ phase = "closed" /\ hasDraft = FALSE /\ model = Closed
    /\ ranges = <<>> /\ byOffset = <<>> /\ arenas = <<>>
    /\ f16 = <<>> /\ f16ByOffset = <<>> /\ f16Off = FALSE
    /\ memory = <<>> /\ buffers = EmptyBuffers
    /\ copies = <<>> /\ inUse = {} /\ todo = NoSpan /\ fetch = NoFetch /\ answer = NoAnswer
    /\ budget = [calls |-> MaxCalls, opens |-> MaxOpens, failures |-> MaxFailures]

WNext ==
    \/ OpenEngine \/ MapMain \/ MapMtp \/ Preload \/ Preloaded \/ Want
    \/ ArenaAlloc \/ UploadChunk \/ UploadFails \/ CopyDone \/ UploadEnd
    \/ RegisterRange \/ RegisterFails \/ CopyRange \/ Nowhere
    \/ SpanDone \/ UseRaw \/ UseF16 \/ Expand \/ DisableF16 \/ KernelsDone \/ CloseEngine

WSpec == WInit /\ [][WNext]_wvars

-----------------------------------------------------------------------------
Wanted(a, k) == LET unit == <<a.w.map, a.w.off + k>>
                IN  IF a.form = "raw" THEN unit ELSE <<"f16", unit>>

(* What a kernel is given for a weight is that weight: the bytes of its own
   file at its own offset, whichever of the two models is mapped, however it
   was cached, whatever failed on the way (cuda_model_range_ptr,
   cuda_q8_f16_ptr).                                                       *)
GivesTheWeight ==
    answer.given => \A k \in 0..(answer.w.n - 1) : Unit(answer.ptr, k) = Wanted(answer, k)

(* Device memory lives while it is used and no longer: nothing a launched
   kernel or a queued copy uses is freed under it, and a closed engine holds
   none, whatever failed while it ran (cuda_q8_f16_cache_disable_after_failure,
   cuda_model_range_release_all, ds4_gpu_cleanup).                         *)
MemoryLives ==
    /\ inUse \subseteq DOMAIN memory
    /\ \A c \in Range(copies) : c.id \in DOMAIN memory
    /\ phase = "closed" => DOMAIN memory = {}
=============================================================================
