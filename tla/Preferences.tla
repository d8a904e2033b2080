----------------------------- MODULE Preferences -----------------------------
(***************************************************************************)
(* libraries/Preferences: a key-value table in one flash sector, edited in *)
(* a RAM shadow that all instances share (the static s_buf) and persisted  *)
(* by erasing and rewriting the sector.  Power may fail at any moment.     *)
(*                                                                         *)
(* The region is modelled as the walk over it sees it: the entries, dead   *)
(* ones included, up to the end marker.  After an interrupted write the    *)
(* marker is missing and the walk runs through erased bytes, which read as *)
(* dead entries, to the end of the region.                                 *)
(***************************************************************************)
EXTENDS Naturals, Sequences, FiniteSets

CONSTANTS
    Instances,      \* Preferences objects
    Names,          \* namespaces short enough to store
    NoName,         \* in place of the namespace: no magic
    Keys, Values,   \* a value stands for its type tag and its data
    KeyLen,         \* strlen(key)
    DataLen,        \* bytes of the value's data
    Damaged,        \* what is read of a value whose write was cut short
    RegionSize      \* bytes behind the header: PREFS_REGION_SIZE - PREFS_HDR_SIZE

ASSUME SizesAssumption ==
    /\ RegionSize \in Nat /\ RegionSize >= 2
    /\ KeyLen \in [Keys -> Nat] /\ DataLen \in [Values -> Nat]
ASSUME NoNameAssumption == NoName \notin Names /\ Damaged \notin Values

VARIABLES
    flash,      \* the sector, as a table
    buf,        \* s_buf
    handle,     \* _handle is open
    readOnly, dirty, ns,    \* _readOnly, _dirty, _ns
    pc,         \* "idle", or the commit under way
    forgotten   \* history: a begin() that failed has cleared _dirty

objects == <<handle, readOnly, dirty, ns>>
vars == <<flash, buf, objects, pc, forgotten>>

Entry(k, v) == [key |-> k, val |-> v, st |-> "live"]
Entries == [key: Keys, val: Values, st: {"live", "dead", "damaged"}]
Tables == [ns: Names \cup {NoName}, entries: Seq(Entries), closed: BOOLEAN]
Idle == [at |-> "idle"]

-----------------------------------------------------------------------------
(* The table in the region. *)
Size(e) == 4 + KeyLen[e.key] + DataLen[e.val]

(* The bytes that entries I occupy, and those the walk passes over. *)
BytesAt(s, I) == Cardinality(UNION {{i} \X (1 .. Size(s[i])) : i \in I})
BytesOf(s) == BytesAt(s, DOMAIN s)

Table(n, s, c) == [ns |-> n, entries |-> s, closed |-> c]
Erased == Table(NoName, << >>, FALSE)
Zeroed == Table(NoName, << >>, TRUE)

(* _reset(): a header and an end marker. *)
Reset_HeaderOnly(n) == [flash EXCEPT !.ns = n, !.closed = TRUE]
Reset(n) == Table(n, << >>, TRUE)

(* _tableEnd(): without an end marker the region counts as full. *)
TableEnd(t) == IF t.closed THEN BytesOf(t.entries) ELSE RegionSize

freeEntries == RegionSize - TableEnd(buf)

(* _compact() moves the entries that are not dead down, each to its place  *)
(* among them, and writes an end marker.                                   *)
Kept(s) == {i \in DOMAIN s : s[i].st # "dead"}
Place(s, i) == Cardinality({j \in Kept(s) : j <= i})
Packed(s) == [n \in 1 .. Cardinality(Kept(s)) |->
                 s[CHOOSE i \in Kept(s) : Place(s, i) = n]]

Compact_KeepsDead(t) == Table(t.ns, t.entries, TRUE)
Compact(t) == Table(t.ns, Packed(t.entries), TRUE)

(* prefs_find() and _remove() stop at the first live entry of the key. *)
IsLive(t, k, i) == t.entries[i].st # "dead" /\ t.entries[i].key = k
Found(t, k) == \E i \in DOMAIN t.entries : IsLive(t, k, i)
First(t, k) == CHOOSE i \in DOMAIN t.entries :
                  IsLive(t, k, i) /\ \A j \in 1 .. i - 1 : ~IsLive(t, k, j)

Without(t, k) ==
    IF Found(t, k)
    THEN [t EXCEPT !.entries[First(t, k)].st = "dead"]
    ELSE t

(* _append(): key length, compaction, room for the entry and the marker. *)
Fits(t, k, v) == BytesOf(t.entries) + Size(Entry(k, v)) + 2 <= RegionSize

Appended(t, k, v) ==
    LET c == Compact(t)
    IN  CASE KeyLen[k] \notin 1 .. 255 -> t
          [] KeyLen[k] \in 1 .. 255 /\ Fits(c, k, v) ->
                Table(c.ns, Append(c.entries, Entry(k, v)), TRUE)
          [] OTHER -> c

CanAppend(t, k, v) == KeyLen[k] \in 1 .. 255 /\ Fits(Compact(t), k, v)

(* A get() of the value's own type; a type mismatch reads as absent. *)
Lookup(t, k) ==
    LET e == t.entries[First(t, k)] IN IF e.st = "live" THEN e.val ELSE Damaged
Has(t, k, v) == Found(t, k) /\ Lookup(t, k) = v

-----------------------------------------------------------------------------
(* Power-on: zeroed statics, which the walk reads as an empty table. *)
Off == [i \in Instances |-> FALSE]

Init ==
    /\ flash = Erased
    /\ buf = Zeroed
    /\ handle = Off /\ readOnly = Off /\ dirty = Off
    /\ ns = [i \in Instances |-> NoName]
    /\ pc = Idle
    /\ forgotten = FALSE

(* begin() finds the magic and its own name in the sector. *)
Stored_MagicOnly(open, n) == open /\ flash.ns # NoName
Stored(open, n) == open /\ flash.ns = n

(* begin(): the table of the namespace, or a fresh one that end() will     *)
(* persist, in read-only mode too.  `opens' is bl_mtd_open()'s success.     *)
Begin(i, n, ro, opens) ==
    /\ pc = Idle
    /\ handle' = [handle EXCEPT ![i] = @ \/ opens]
    /\ readOnly' = [readOnly EXCEPT ![i] = ro]
    /\ ns' = [ns EXCEPT ![i] = n]
    /\ buf' = IF Stored(handle'[i], n) THEN flash ELSE Reset(n)
    /\ dirty' = [dirty EXCEPT ![i] = ~Stored(handle'[i], n)]
    /\ forgotten' = FALSE
    /\ UNCHANGED <<flash, pc>>

(* begin() with a name too long for the header: it fails, but only after   *)
(* the mode is set and the pending changes are forgotten.                  *)
BeginTooLong(i, ro) ==
    /\ pc = Idle
    /\ readOnly' = [readOnly EXCEPT ![i] = ro]
    /\ dirty' = [dirty EXCEPT ![i] = FALSE]
    /\ forgotten' = TRUE
    /\ UNCHANGED <<flash, buf, handle, ns, pc>>

(* put*(): remove the key's old entry, whatever its type, then append.  A  *)
(* put that finds no room has still removed, and marked, the old entry.    *)
Put_MarkedByAppend(i, k, v) ==
    /\ pc = Idle
    /\ ~readOnly[i]
    /\ buf' = Appended(Without(buf, k), k, v)
    /\ dirty' = [dirty EXCEPT ![i] = @ \/ CanAppend(Without(buf, k), k, v)]
    /\ UNCHANGED <<flash, handle, readOnly, ns, pc, forgotten>>

Put_NoRemove(i, k, v) ==
    /\ pc = Idle
    /\ ~readOnly[i]
    /\ buf' = Appended(buf, k, v)
    /\ dirty' = [dirty EXCEPT ![i] = @ \/ CanAppend(buf, k, v)]
    /\ UNCHANGED <<flash, handle, readOnly, ns, pc, forgotten>>

Put(i, k, v) ==
    /\ pc = Idle
    /\ ~readOnly[i]
    /\ buf' = Appended(Without(buf, k), k, v)
    /\ dirty' = [dirty EXCEPT ![i] =
                   @ \/ Found(buf, k) \/ CanAppend(Without(buf, k), k, v)]
    /\ UNCHANGED <<flash, handle, readOnly, ns, pc, forgotten>>

Remove(i, k) ==
    /\ pc = Idle
    /\ ~readOnly[i] /\ Found(buf, k)
    /\ buf' = Without(buf, k)
    /\ dirty' = [dirty EXCEPT ![i] = TRUE]
    /\ UNCHANGED <<flash, handle, readOnly, ns, pc, forgotten>>

Clear(i) ==
    /\ pc = Idle
    /\ ~readOnly[i]
    /\ buf' = Reset(ns[i])
    /\ dirty' = [dirty EXCEPT ![i] = TRUE]
    /\ UNCHANGED <<flash, handle, readOnly, ns, pc, forgotten>>

-----------------------------------------------------------------------------
(* end() closes the handle whatever became of its commit. *)
Closed(i, ends) ==
    /\ handle' = [handle EXCEPT ![i] = @ /\ ~ends]
    /\ readOnly' = [readOnly EXCEPT ![i] = @ /\ ~ends]
    /\ pc' = Idle
    /\ UNCHANGED <<ns, forgotten>>

(* end() with nothing to commit, or no handle to commit to. *)
EndClean(i) ==
    /\ pc = Idle
    /\ ~(dirty[i] /\ handle[i])
    /\ Closed(i, TRUE)
    /\ UNCHANGED <<flash, buf, dirty>>

(* commit(), or the one inside end(): compaction and the sector's erase. *)
Erase(i, ends) ==
    /\ pc = Idle
    /\ dirty[i] /\ handle[i]
    /\ buf' = Compact(buf)
    /\ flash' = Erased
    /\ pc' = [at |-> "write", by |-> i, ends |-> ends]
    /\ UNCHANGED <<objects, forgotten>>

EraseFails(i, ends) ==
    /\ pc = Idle
    /\ dirty[i] /\ handle[i]
    /\ buf' = Compact(buf)
    /\ flash' \in {flash, Erased}
    /\ Closed(i, ends)
    /\ UNCHANGED dirty

(* What a write that stops early leaves: no header, or some of the entries *)
(* and no end marker, the data of the last one perhaps not all written.    *)
Torn(t) ==
    {Erased} \cup
    {Table(t.ns, SubSeq(t.entries, 1, n), FALSE) : n \in 0 .. Len(t.entries)} \cup
    {Table(t.ns, [SubSeq(t.entries, 1, n) EXCEPT ![n].st = "damaged"], FALSE) :
       n \in DOMAIN t.entries}

Write(i) ==
    /\ pc.at = "write" /\ pc.by = i
    /\ flash' = buf
    /\ dirty' = [dirty EXCEPT ![i] = FALSE]
    /\ Closed(i, pc.ends)
    /\ UNCHANGED buf

WriteFails(i) ==
    /\ pc.at = "write" /\ pc.by = i
    /\ flash' \in Torn(buf)
    /\ Closed(i, pc.ends)
    /\ UNCHANGED <<buf, dirty>>

PowerLoss ==
    /\ flash' \in IF pc.at = "write" THEN Torn(buf) ELSE {flash}
    /\ buf' = Zeroed
    /\ handle' = Off /\ readOnly' = Off /\ dirty' = Off
    /\ ns' = [i \in Instances |-> NoName]
    /\ pc' = Idle
    /\ forgotten' = FALSE

Next ==
    \/ PowerLoss
    \/ \E i \in Instances :
         \/ \E n \in Names, ro, opens \in BOOLEAN : Begin(i, n, ro, opens)
         \/ \E ro \in BOOLEAN : BeginTooLong(i, ro)
         \/ \E k \in Keys : Remove(i, k) \/ \E v \in Values : Put(i, k, v)
         \/ Clear(i) \/ EndClean(i)
         \/ \E ends \in BOOLEAN : Erase(i, ends) \/ EraseFails(i, ends)
         \/ Write(i) \/ WriteFails(i)

Spec == Init /\ [][Next]_vars

-----------------------------------------------------------------------------
(* Every variable keeps its type, and the tables stay in the region: there *)
(* is always room for the end marker behind the entries, so that no walk   *)
(* over them leaves the sector.                                            *)
InRegion(t) == BytesOf(t.entries) + 2 <= RegionSize

TypeOK ==
    /\ flash \in Tables /\ InRegion(flash)
    /\ buf \in Tables /\ InRegion(buf)
    /\ handle \in [Instances -> BOOLEAN] /\ readOnly \in [Instances -> BOOLEAN]
    /\ dirty \in [Instances -> BOOLEAN]
    /\ ns \in [Instances -> Names \cup {NoName}]
    /\ pc \in {Idle} \cup [at: {"write"}, by: Instances, ends: BOOLEAN]
    /\ forgotten \in BOOLEAN

(* A key has one live entry at most, in RAM and in flash, after any puts,  *)
(* removals, compactions, torn writes and reloads: so a removed key stays  *)
(* removed and a get never returns a superseded value.                     *)
OneEntryPerKey ==
    \A t \in {flash, buf}, k \in Keys :
        \A i, j \in DOMAIN t.entries : IsLive(t, k, i) /\ IsLive(t, k, j) => i = j

(* The tables are well formed: typed, inside the region, and without       *)
(* superseded entries.                                                     *)
TablesAreSound == TypeOK /\ OneEntryPerKey

(* Space is never lost to overwritten or removed values: a put succeeds    *)
(* whenever the live entries of the other keys leave room for the entry    *)
(* and the marker, or freeEntries() has said that there is room for both.  *)
LiveBytesBesides(t, k) ==
    BytesAt(t.entries, {i \in Kept(t.entries) : t.entries[i].key # k})

RoomIsUsable ==
    [][\A i \in Instances, k \in Keys, v \in Values :
         /\ Put(i, k, v) /\ KeyLen[k] \in 1 .. 255
         /\ \/ LiveBytesBesides(buf, k) + Size(Entry(k, v)) + 2 <= RegionSize
            \/ Size(Entry(k, v)) + 2 <= freeEntries
         => Has(buf', k, v)]_vars

(* The map the gets see. *)
MapOf(t) == [k \in {j \in Keys : Found(t, j)} |-> Lookup(t, k)]
Contents(t) == [ns |-> t.ns, map |-> MapOf(t)]

(* A change is never left unmarked: when flash is open and no instance is  *)
(* dirty, the shadow holds what flash holds, so an end() that commits      *)
(* nothing loses nothing.  A begin() that fails for its long name is the   *)
(* exception: it has cleared the mark of pending changes.                  *)
PendingIsMarked ==
    (\E i \in Instances : handle[i]) /\ (\A i \in Instances : ~dirty[i]) /\ ~forgotten
        => Contents(buf) = Contents(flash)

(* "readOnly = true forbids writes" (Preferences.h): an instance opened    *)
(* read-only never erases a sector that holds entries.                     *)
ReadOnlyKeepsStored ==
    [][\A i \in Instances, ends \in BOOLEAN :
         Erase(i, ends) /\ readOnly[i] => flash.entries = << >>]_vars

(* The table implements the store: a namespace never shows another one's   *)
(* keys, only a commit under way can lose what is durable, and it leaves   *)
(* nothing or a part of the map, with the value that was being written     *)
(* perhaps damaged.                                                        *)
Store == INSTANCE KeyValueStore
           WITH working <- Contents(buf), durable <- Contents(flash),
                committing <- pc.at = "write"

ImplementsStore == Store!Spec

(* And each call does to the map what it was asked: begin() loads the      *)
(* namespace it names, a put() that returns the size stores its value and  *)
(* one that returns 0 has removed the old value, and a commit that         *)
(* reports success has made the working map durable.                       *)
CallsImplementStore ==
    [][\A i \in Instances :
         /\ \A n \in Names, ro \in BOOLEAN :
               Begin(i, n, ro, TRUE) => Store!Load(n)
         /\ \A k \in Keys, v \in Values :
               Put(i, k, v) => IF CanAppend(Without(buf, k), k, v)
                               THEN Store!Put(k, v) ELSE Store!Remove(k)
         /\ \A k \in Keys : Remove(i, k) => Store!Remove(k)
         /\ Clear(i) => Store!Clear(ns[i])
         /\ Write(i) => Store!Commit]_vars
=============================================================================
