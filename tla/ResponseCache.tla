---------------------------- MODULE ResponseCache ---------------------------
(* The response gate of the MCP server and the overflow cache behind it    *)
(* (mcp/overflow.go, store/store_response_chunks.go): a response above the *)
(* byte limit is split, stored in the index database and replaced by a     *)
(* manifest the agent reads sections back with.  Servers share one         *)
(* database, and every rebuild of the index empties the cache.             *)
EXTENDS Chunks

CONSTANTS
    Servers,
    Payloads,        \* the texts a tool may render
    Header,          \* the lines read back in front of a section
    Gap,             \* the lines after each section when all are read
    Notice(_),       \* the stop notice naming the last section included
    Truncated,       \* the notice after a truncated first section
    CapBytes,        \* responseChunkCapBytes
    MaxGeneration,   \* bound: rebuilds of the index
    Instants         \* bound: the times responses are stored at, hundredths of a second

ASSUME BoundsAssumption ==
    /\ MaxGeneration \in Nat
    /\ Instants \subseteq Nat \ {0}

ASSUME CapAssumption == CapBytes \in Nat

ASSUME TextsAssumption ==
    /\ Payloads \subseteq Texts
    /\ Header \in Texts \ {<< >>}
    /\ Gap \in Texts
    /\ Truncated \in Texts
    /\ \A i \in 0 .. Limit : Notice(i) \in Texts

(* The longest header keeps to the room there is for it; the notice after  *)
(* a truncated section is the shorter of the two, and a stop notice grows  *)
(* with the digits of the section it names.                                *)
ASSUME SizesAssumption ==
    /\ Size(Header) <= HeaderRoom
    /\ Size(Truncated) <= Size(Notice(0))
    /\ \A i \in 0 .. Limit : Size(Notice(0)) <= Size(Notice(i))

VARIABLES
    generation,   \* how often the index has been written
    now,          \* the clock, in hundredths of a second
    chunks,       \* table response_chunks: the stored responses, in rowid order
    call          \* what each server is doing, or what it said last

vars == <<generation, now, chunks, call>>

(* A stored response is [id, sections, text, from]: its id is the instant  *)
(* it was stored at; the text and the generation of the index it was       *)
(* rendered from are not columns, they are kept to compare with.           *)
Row(t, text, from) == [id |-> t, sections |-> RenderedSections(text),
                       text |-> text, from |-> from]

Replied(what) == [at |-> "idle", said |-> what]
Stored == {chunks[k].id : k \in DOMAIN chunks}
ResponseOf(id) == CHOOSE r \in Range(chunks) : r.id = id

SectionsSize(sections) ==
    FoldLeft(LAMBDA sum, section : sum + Size(section), 0, sections)

TotalBytes(rows) ==
    FoldLeft(LAMBDA sum, r : sum + SectionsSize(r.sections), 0, rows)

(* created_at is text.  RFC3339Nano drops the zeros a fraction ends in, so *)
(* the "Z" that follows sorts after the digits another fraction goes on    *)
(* with, and a whole second sorts after its own fractions.                 *)
CreatedAt(t) ==
    LET Rank(digit) == IF digit = 0 THEN 10 ELSE digit
    IN  (t \div 100) * 1000 + IF t % 100 = 0 THEN 999
                              ELSE ((t % 100) \div 10) * 11 + Rank(t % 10)

Init ==
    /\ generation = 0
    /\ now = 0
    /\ chunks = << >>
    /\ call = [s \in Servers |-> Replied("answer")]

Goto(s, state) == call' = [call EXCEPT ![s] = state]
Says(s, what) == Goto(s, Replied(what))

(* A handler has rendered its result; what is below the limit is returned  *)
(* as it is.                                                               *)
Render(s, text, from) ==
    IF Size(text) <= Limit
    THEN Says(s, "answer")
    ELSE Goto(s, [at |-> "gate", text |-> text, from |-> from])

(* A query tool answers from the index as it is now.                       *)
Query(s) ==
    /\ call[s].at = "idle"
    /\ \E text \in Payloads : Render(s, text, generation)
    /\ UNCHANGED <<generation, now, chunks>>

(* An index write commits: the bookkeeping of the same transaction deletes *)
(* every stored response.                                                  *)
Rebuild ==
    /\ generation < MaxGeneration
    /\ generation' = generation + 1
    /\ chunks' = << >>

(* Another process, or another tool of this one, writes the index.         *)
Reindex ==
    /\ Rebuild
    /\ UNCHANGED <<now, call>>

(* The gate asks for the store again, and with it for a fresh index.       *)
GateStore(s) ==
    /\ call[s].at = "gate"
    /\ \/ /\ Goto(s, [call[s] EXCEPT !.at = "save"])
          /\ UNCHANGED <<generation, chunks>>
       \/ /\ Rebuild
          /\ Goto(s, [call[s] EXCEPT !.at = "save"])
       \/ /\ Says(s, "error")
          /\ UNCHANGED <<generation, chunks>>
    /\ UNCHANGED now

Without(rows, id) ==
    FoldLeft(LAMBDA kept, r : IF r.id = id THEN kept ELSE Append(kept, r),
             << >>, rows)

(* The most recent first.                                                  *)
LatestFirst(rows, keep) ==
    CHOOSE k \in DOMAIN rows :
        /\ rows[k].id # keep
        /\ \A j \in DOMAIN rows \ {k} :
              rows[j].id # keep => CreatedAt(rows[k].id) > CreatedAt(rows[j].id)

(* Whole responses go, the least created_at first, until the rest fits;    *)
(* never the one just stored.                                              *)
First(rows, keep) ==
    CHOOSE k \in DOMAIN rows :
        /\ rows[k].id # keep
        /\ \A j \in DOMAIN rows \ {k} :
              rows[j].id # keep =>
                  \/ CreatedAt(rows[k].id) < CreatedAt(rows[j].id)
                  \/ CreatedAt(rows[k].id) = CreatedAt(rows[j].id) /\ k < j

(* One eviction, whatever it frees.                                        *)
PruneOnce(rows, keep) ==
    IF TotalBytes(rows) > CapBytes /\ Len(rows) > 1
    THEN Without(rows, rows[First(rows, keep)].id) ELSE rows

Evict(rows, keep) ==
    IF TotalBytes(rows) > CapBytes /\ \E r \in Range(rows) : r.id # keep
    THEN Without(rows, rows[First(rows, keep)].id) ELSE rows

PruneToCap(rows, keep) ==
    FoldLeft(LAMBDA left, r : Evict(left, keep), rows, rows)

(* A clock read in coarser units: two saves in one of them share an id.    *)
CoarseLater == {t \in Instants : t >= now}

(* The clock moves between any two saves, and an id is the nanosecond.     *)
Later == {t \in Instants : t > now}

(* SaveResponseChunks, one transaction, and the manifest.                  *)
Save(s) ==
    /\ call[s].at = "save"
    /\ \E t \in Later :
          LET r == Row(t, call[s].text, call[s].from) IN
          /\ now' = t
          /\ chunks' = PruneToCap(Append(chunks, r), t)
          /\ Says(s, "manifest")
    /\ UNCHANGED generation

(* read_response_section: whether the response is there is one statement,  *)
(* reading its sections another.                                           *)
Find(s) ==
    /\ call[s].at = "idle"
    /\ \E id \in Instants, how \in {"all", "first", "last", "match"} :
          IF id \in Stored
          THEN /\ Goto(s, [at |-> "found", id |-> id, how |-> how])
               ELSE Says(s, "error")
    /\ UNCHANGED <<generation, now, chunks>>

(* The first size bytes of a text.                                         *)
Take(acc, line, size) ==
    LET room == size - Size(acc)
    IN  IF room <= 0 THEN acc
        ELSE Append(acc, [line EXCEPT
                !.bytes = SubSeq(@, 1, IF Len(@) < room THEN Len(@) ELSE room)])

Cut(text, size) == FoldLeft(LAMBDA acc, line : Take(acc, line, size), << >>, text)

(* Every section in order, each after its header, while header and section *)
(* stay within the budget that leaves room for the stop notice.            *)
Budget == Limit - Size(Notice(0))

Add(acc, section) ==
    IF acc.stopped THEN acc
    ELSE IF Size(acc.out) + Size(Header) + Size(section) <= Budget
    THEN [acc EXCEPT !.out = @ \o Header \o section \o Gap, !.read = @ + 1]
    ELSE [acc EXCEPT
            !.stopped = TRUE,
            !.out = IF acc.read > 0 THEN @ \o Notice(acc.read - 1)
                    ELSE Header \o Cut(section, Budget - Size(Header)) \o Truncated]

AllSections(sections) ==
    FoldLeft(Add, [out |-> << >>, read |-> 0, stopped |-> FALSE], sections).out

(* The answer - one section, every section, or the previews a search finds *)
(* - passes the gate like any other.  A response that has gone since it    *)
(* was found has no rows: all of none is an empty text, a search matches   *)
(* nothing, and only a read by index looks again.                          *)
Read(s) ==
    /\ call[s].at = "found"
    /\ LET id == call[s].id
           how == call[s].how
           sections == ResponseOf(id).sections
           k == IF how = "first" THEN 1 ELSE Len(sections)
       IN  IF id \in Stored
           THEN Render(s, IF how \in {"first", "last"}
                          THEN Header \o sections[k]
                          ELSE IF how = "all" THEN AllSections(sections)
                          ELSE Header \o Cut(sections[1], Size(Header)),
                       ResponseOf(id).from)
           ELSE Says(s, CASE how = "all" -> "empty"
                          [] how = "match" -> "no_match"
                          [] OTHER -> "error")
    /\ UNCHANGED <<generation, now, chunks>>

Next ==
    \/ Reindex
    \/ \E s \in Servers : Query(s) \/ GateStore(s) \/ Save(s) \/ Find(s) \/ Read(s)

Spec == Init /\ [][Next]_vars

-----------------------------------------------------------------------------
(* Properties.                                                             *)

(* Types: what is stored has an id of its own that the clock has passed.   *)
TypeOK ==
    /\ generation \in 0 .. MaxGeneration
    /\ now \in Instants \cup {0}
    /\ \A k \in DOMAIN chunks :
          /\ chunks[k].id \in Instants
          /\ chunks[k].id <= now
          /\ chunks[k].from \in 0 .. generation
          /\ \A j \in 1 .. k - 1 : chunks[j].id < chunks[k].id
    /\ \A s \in Servers : call[s].at \in {"idle", "gate", "save", "found"}

(* chunk.go:31: "Concatenating every section's Content reproduces the      *)
(* input exactly", also after cutting long lines and folding small         *)
(* sections into their neighbours.                                         *)
StoredWhole ==
    \A k \in DOMAIN chunks :
        Bytes(FlattenSeq(chunks[k].sections)) = Bytes(chunks[k].text)

(* chunk.go:51: "a section plus its header still fits the gate it came     *)
(* from and reading it back never re-overflows", once the limit leaves     *)
(* room for the smallest section.  Reading all of a response, once it      *)
(* leaves room for a header and a notice, comes within the gap after a     *)
(* section and the digits of the notice of the limit: what is gated anew   *)
(* is at most that much too long.                                          *)
ReadsBack ==
    \A r \in Range(chunks) :
        /\ Limit >= HeaderRoom + MinChunk =>
              \A section \in Range(r.sections) : Size(Header \o section) <= Limit
        /\ Limit >= Size(Header) + Size(Notice(0)) =>
              \E last \in DOMAIN r.sections :
                  Size(AllSections(r.sections)) <=
                      Limit + Size(Gap) + Size(Notice(last - 1)) - Size(Notice(0))

(* The cache stays within its cap, but for a single response above it,     *)
(* whatever servers store, read and prune in turn.                         *)
CapHolds == TotalBytes(chunks) <= CapBytes \/ Len(chunks) = 1

(* A save evicts no more than it must: with the last response it evicted   *)
(* the cache would be over its cap; and it evicts nothing else than what   *)
(* sorts before everything that stays.                                     *)
EvictsAsNeeded ==
    [][ \A k \in DOMAIN chunks :
          (generation' = generation /\ chunks[k] \notin Range(chunks')) =>
              /\ \A r \in Range(chunks') :
                    r.id \in Stored => CreatedAt(chunks[k].id) < CreatedAt(r.id)
              /\ \/ TotalBytes(chunks') + SectionsSize(chunks[k].sections) > CapBytes
                 \/ \E j \in DOMAIN chunks :
                       /\ chunks[j] \notin Range(chunks')
                       /\ CreatedAt(chunks[k].id) < CreatedAt(chunks[j].id) ]_vars

(* overflow.go:195: measuring the notice first, "appending it cannot push  *)
(* the result back over the limit the notice is there to respect".         *)
ReadBackFits ==
    \A r \in Range(chunks) : Size(AllSections(r.sections)) <= Limit

(* store_response_chunks.go:106: "evicts whole response groups             *)
(* oldest-first".                                                          *)
EvictsOldestFirst ==
    [][ \A k \in DOMAIN chunks :
          (generation' = generation /\ chunks[k] \notin Range(chunks')) =>
              \A r \in Range(chunks') : chunks[k].id < r.id ]_vars

(* store_response_chunks.go:150: "An unknown response_id fails with        *)
(* ErrUnknownResponse": no answer about a response that is gone says that  *)
(* it is empty.                                                            *)
NoEmptyRead == \A s \in Servers : call[s] # Replied("empty")

(* store_response_chunks.go:207: "overflow data is a cache that never      *)
(* outlives the index generation it was captured against".                 *)
OutlivesNoGeneration == \A r \in Range(chunks) : r.from = generation
=============================================================================
