------------------------------- MODULE UtHash --------------------------------
(***************************************************************************)
(* The hash table of uthash.h as server.c uses it for clients_map,         *)
(* compilers_map and each clients_list: a doubly linked list in the order  *)
(* of addition, and chains of the same elements in buckets that are        *)
(* doubled when a chain gets long.                                         *)
(*                                                                         *)
(* One thread at a time changes the table, under compilers_map_mutex or    *)
(* clients_map_mutex.  A reader takes neither: it looks a key up as        *)
(* push_solution and remove_client do (server.c:360, 414), or goes through *)
(* the list as push_solution does (server.c:375), under list_mutex, which  *)
(* keeps out deletions and not additions.                                  *)
(*                                                                         *)
(* The values a reader can see are written one by one.  Writes that only   *)
(* the writer reads are made together with them.                           *)
(***************************************************************************)
EXTENDS Integers, Sequences, FiniteSets

CONSTANTS
  Elems,              (* the structs that can be in the table               *)
  Null,
  Key,                (* Key[e]: the key field of e                         *)
  Hash,               (* Hash[k]: the hash of k before it is cut (HASH_JEN) *)
  HASH_INITIAL_NUM_BUCKETS, HASH_BKT_CAPACITY_THRESH,
  MaxBuckets          (* bound: nothing is added to a table of this size    *)

Keys == {Key[e] : e \in Elems}

ASSUME ElemsAssumption == IsFiniteSet(Elems) /\ Null \notin Elems
ASSUME HashAssumption == Hash \in [Keys -> Nat]
ASSUME SizesAssumption ==
  /\ HASH_INITIAL_NUM_BUCKETS \in Nat \ {0}
  /\ HASH_BKT_CAPACITY_THRESH \in Nat \ {0}
  /\ MaxBuckets \in Nat

VARIABLES
  head,               (* the pointer the user keeps, NULL for no table      *)
  next, prev,         (* UT_hash_handle: the list                           *)
  hh_next, hh_prev,   (* UT_hash_handle: the chain in a bucket              *)
  tail, num_items, num_buckets, buckets, ineff_expands, noexpand,
                      (* UT_hash_table; num_buckets is 0 if there is none   *)
  writer,             (* where the writing thread is                        *)
  add,                (* the element it adds                                *)
  move,               (* the locals of HASH_EXPAND_BUCKETS                  *)
  iter,               (* the locals of a loop with HASH_ITER and HASH_DEL   *)
  reader,             (* the locals of the reading thread                   *)
  (* history, read by the properties alone                                  *)
  before,             (* the list when the reader began                     *)
  disturbed           (* the reader's lookup saw more than additions        *)

list == <<head, next, prev>>
chains == <<hh_next, hh_prev>>
table == <<tail, num_items, num_buckets, buckets, ineff_expands, noexpand>>
reading == <<reader, before>>
vars == <<list, chains, table, writer, add, move, iter, reading, disturbed>>

Pointers == Elems \cup {Null}

(* The elements from e on along f, at most as many as there are.            *)
Along(f, e) ==
  LET walk[n \in 1..Cardinality(Elems)] ==
        IF n = 1 THEN e ELSE LET p == walk[n - 1] IN IF p = Null THEN Null ELSE f[p]
      All == {n \in 1..Cardinality(Elems) : walk[n] # Null}
  IN  [n \in All |-> walk[n]]

Members(s) == {s[i] : i \in DOMAIN s}

(* The list, in application order.                                          *)
Order == Along(next, head)
Listed == Members(Order)

(* HASH_TO_BKT; the number of buckets is a power of two.                    *)
Bucket(k, num_bkts) == Hash[k] % num_bkts

EmptyBucket == [hh_head |-> Null, count |-> 0, expand_mult |-> 0]
EmptyBuckets(n) == [b \in 0..(n - 1) |-> EmptyBucket]

(* f with f[e] = v, if e is an element at all: "if (p) p->f = v".           *)
Set(f, e, v) == IF e = Null THEN f ELSE [f EXCEPT ![e] = v]

(* A lookup that is under way meets a table in an unusual state.            *)
Disturb == disturbed' = (reader.op \in {"bucket", "chain"})
-----------------------------------------------------------------------------
(* HASH_ADD_KEYPTR.                                                         *)

(* The element becomes the head of a new list, with no table yet, or is     *)
(* linked behind the tail.                                                  *)
AddLink(e) ==
  /\ writer = "idle"
  /\ e \notin Listed
  /\ num_buckets < MaxBuckets
  /\ add' = e
  /\ \/ /\ head = Null
        /\ head' = e
        /\ next' = [next EXCEPT ![e] = Null]
        /\ prev' = [prev EXCEPT ![e] = Null]
        /\ writer' = "make"
        /\ UNCHANGED tail
     \/ /\ head # Null
        /\ next' = [next EXCEPT ![e] = Null, ![tail] = e]
        /\ prev' = [prev EXCEPT ![e] = tail]
        /\ tail' = e
        /\ writer' = "chain"
        /\ UNCHANGED head
  /\ UNCHANGED <<chains, num_items, num_buckets, buckets, ineff_expands, noexpand,
                 move, iter, reading, disturbed>>

HASH_MAKE_TABLE ==
  /\ writer = "make"
  /\ writer' = "chain"
  /\ tail' = head
  /\ num_items' = 0
  /\ num_buckets' = HASH_INITIAL_NUM_BUCKETS
  /\ buckets' = EmptyBuckets(HASH_INITIAL_NUM_BUCKETS)
  /\ ineff_expands' = 0 /\ noexpand' = FALSE
  /\ Disturb
  /\ UNCHANGED <<list, chains, add, move, iter, reading>>

AddBucket == Bucket(Key[add], num_buckets)

(* HASH_ADD_TO_BKT as far as the new element, which no reader can reach     *)
(* yet.                                                                     *)
AddChain ==
  /\ writer = "chain"
  /\ writer' = "publish"
  /\ num_items' = num_items + 1
  /\ buckets' = [buckets EXCEPT ![AddBucket].count = @ + 1]
  /\ hh_next' = [hh_next EXCEPT ![add] = buckets[AddBucket].hh_head]
  /\ hh_prev' = Set([hh_prev EXCEPT ![add] = Null], buckets[AddBucket].hh_head, add)
  /\ UNCHANGED <<list, tail, num_buckets, ineff_expands, noexpand, add, move, iter,
                 reading, disturbed>>

(* The bucket has as many elements as it may have.                          *)
Full(b) == b.count >= (b.expand_mult + 1) * HASH_BKT_CAPACITY_THRESH

(* ... then it becomes the first of its bucket.                             *)
AddPublish ==
  /\ writer = "publish"
  /\ buckets' = [buckets EXCEPT ![AddBucket].hh_head = add]
  /\ \/ /\ Full(buckets[AddBucket]) /\ ~noexpand
        /\ writer' = "expand"
        /\ UNCHANGED add
     \/ /\ ~(Full(buckets[AddBucket]) /\ ~noexpand)
        /\ writer' = "idle"
        /\ add' = Null
  /\ UNCHANGED <<list, chains, tail, num_items, num_buckets, ineff_expands, noexpand,
                 move, iter, reading, disturbed>>
-----------------------------------------------------------------------------
(* HASH_EXPAND_BUCKETS.                                                     *)

NoMove == [from |-> 0, thh |-> Null, to |-> <<>>, ideal |-> 0, nonideal |-> 0]

ExpandBegin ==
  /\ writer = "expand"
  /\ writer' = "move"
  /\ move' = [from     |-> 0,
              thh      |-> buckets[0].hh_head,
              to       |-> EmptyBuckets(2 * num_buckets),
              ideal    |-> (num_items + 2 * num_buckets - 1) \div (2 * num_buckets),
              nonideal |-> 0]
  /\ UNCHANGED <<list, chains, table, add, iter, reading, disturbed>>

(* A bucket with one more element; expand_mult of one that is longer than   *)
(* the ideal is set from its length.                                        *)
Grown(b, e, ideal) ==
  [hh_head     |-> e,
   count       |-> b.count + 1,
   expand_mult |-> IF b.count + 1 > ideal THEN (b.count + 1) \div ideal
                                          ELSE b.expand_mult]

(* Seeded bug: hh_prev of the moved element is not set to NULL.             *)
PushedKeepsPrev(e, b) == Set(hh_prev, b.hh_head, e)

(* hh_prev after e was put in front of bucket b.                            *)
PushedPrev(e, b) == Set([hh_prev EXCEPT ![e] = Null], b.hh_head, e)

(* One element goes to its new bucket: a reader on it goes on there.        *)
ExpandMove ==
  /\ writer = "move"
  /\ move.thh # Null
  /\ LET e  == move.thh
         to == Bucket(Key[e], 2 * num_buckets)
         b  == move.to[to]
     IN  /\ hh_next' = [hh_next EXCEPT ![e] = b.hh_head]
         /\ hh_prev' = PushedPrev(e, b)
         /\ move' = [move EXCEPT
              !.thh = hh_next[e],
              !.to[to] = Grown(b, e, move.ideal),
              !.nonideal = IF b.count + 1 > move.ideal THEN @ + 1 ELSE @]
  /\ Disturb
  /\ UNCHANGED <<list, table, writer, add, iter, reading>>

(* The outer loop goes to the next old bucket.                              *)
ExpandNextBucket ==
  /\ writer = "move"
  /\ move.thh = Null
  /\ \/ /\ move.from + 1 < num_buckets
        /\ move' = [move EXCEPT !.from = @ + 1, !.thh = buckets[move.from + 1].hh_head]
        /\ UNCHANGED <<writer, num_buckets>>
     \/ /\ move.from + 1 = num_buckets
        /\ num_buckets' = 2 * num_buckets
        /\ writer' = "swap"
        /\ UNCHANGED move
  /\ UNCHANGED <<list, chains, tail, num_items, buckets, ineff_expands, noexpand, add,
                 iter, reading, disturbed>>

(* buckets was freed before num_buckets was doubled; here it gets its new   *)
(* value.  Two expansions that leave most elements too deep are the last.   *)
ExpandSwap ==
  /\ writer = "swap"
  /\ writer' = "idle"
  /\ buckets' = move.to
  /\ ineff_expands' = IF move.nonideal > num_items \div 2 THEN ineff_expands + 1 ELSE 0
  /\ noexpand' = (noexpand \/ ineff_expands' > 1)
  /\ move' = NoMove
  /\ add' = Null
  /\ Disturb
  /\ UNCHANGED <<list, chains, tail, num_items, num_buckets, iter, reading>>
-----------------------------------------------------------------------------
(* HASH_DELETE, and the loops around it.  Each deletion is one step.        *)

(* Seeded bug: the head is left where it is.                                *)
HeadStays(e) == head

HeadWithout(e) == IF prev[e] = Null THEN next[e] ELSE head

(* Seeded bug: the chain still leads to the deleted element.                *)
ChainKept(e) == hh_next

(* HASH_DEL_IN_BKT, for the links forth.                                    *)
ChainWithout(e) == Set(hh_next, hh_prev[e], hh_next[e])

Sole(e) == prev[e] = Null /\ next[e] = Null

(* The last element takes the table with it.  The caller frees the element  *)
(* at once, so nothing is kept of its handle.                               *)
HASH_DELETE(e) ==
  /\ next' = [Set(next, prev[e], next[e]) EXCEPT ![e] = Null]
  /\ prev' = [Set(prev, next[e], prev[e]) EXCEPT ![e] = Null]
  /\ hh_next' = [ChainWithout(e) EXCEPT ![e] = Null]
  /\ hh_prev' = [Set(hh_prev, hh_next[e], hh_prev[e]) EXCEPT ![e] = Null]
  /\ Disturb
  /\ \/ /\ Sole(e)
        /\ head' = Null
        /\ tail' = Null /\ num_items' = 0 /\ num_buckets' = 0 /\ buckets' = <<>>
        /\ ineff_expands' = 0 /\ noexpand' = FALSE
     \/ /\ ~Sole(e)
        /\ tail' = IF e = tail THEN prev[e] ELSE tail
        /\ head' = HeadWithout(e)
        /\ LET b == Bucket(Key[e], num_buckets)
           IN  buckets' = [buckets EXCEPT ![b].count = @ - 1,
                 ![b].hh_head = IF @ = e THEN hh_next[e] ELSE @]
        /\ num_items' = num_items - 1
        /\ UNCHANGED <<num_buckets, ineff_expands, noexpand>>

(* Seeded bug: the list_mutex is not taken.                                 *)
NobodyAsked == TRUE

(* list_mutex: nobody goes through the list.                                *)
ListFree == reader.op # "iterate"

(* HASH_DEL(clients_map, client), of a client in the map.                   *)
DeleteOne(e) ==
  /\ writer = "idle" /\ ListFree
  /\ e \in Listed
  /\ HASH_DELETE(e)
  /\ UNCHANGED <<writer, add, move, iter, reading>>

NextOf(e) == IF e = Null THEN Null ELSE next[e]

(* Seeded bug: a loop with no tmp, which reads the freed element.           *)
AfterDeletion == [iter EXCEPT !.el = next'[@], !.tmp = Null]

AfterStep == [iter EXCEPT !.el = iter.tmp, !.tmp = NextOf(iter.tmp)]

NoIter == [keys |-> {}, el |-> Null, tmp |-> Null]

(* HASH_ITER with a HASH_DEL of every element whose key is in K: one key in *)
(* remove_client, all of them in compiler_free and cleanup.                 *)
IterBegin(K) ==
  /\ writer = "idle" /\ ListFree
  /\ head # Null
  /\ writer' = "iter"
  /\ iter' = [keys |-> K, el |-> head, tmp |-> NextOf(head)]
  /\ UNCHANGED <<list, chains, table, add, move, reading, disturbed>>

IterStep ==
  /\ writer = "iter"
  /\ iter.el # Null
  /\ IF Key[iter.el] \in iter.keys
     THEN HASH_DELETE(iter.el)
     ELSE UNCHANGED <<list, chains, table, disturbed>>
  /\ iter' = AfterStep
  /\ UNCHANGED <<writer, add, move, reading>>

IterEnd ==
  /\ writer = "iter"
  /\ iter.el = Null
  /\ writer' = "idle"
  /\ iter' = NoIter
  /\ UNCHANGED <<list, chains, table, add, move, reading, disturbed>>
-----------------------------------------------------------------------------
(* The reader.                                                              *)

NotReading == [op |-> "none", key |-> 0, bkt |-> 0, out |-> Null, seen |-> <<>>]

(* What a lookup that starts now must find: all but the element that is     *)
(* just being added, which is the last of the list.                         *)
Findable ==
  IF writer \in {"make", "chain", "publish"} THEN SubSeq(Order, 1, Len(Order) - 1) ELSE Order

(* HASH_FIND.  Without a head there is nothing to do; with a head and no    *)
(* table yet an uninitialized pointer is followed, and anything may come    *)
(* out.                                                                     *)
FindBegin(k) ==
  /\ reader.op = "none"
  /\ head # Null
  /\ \/ /\ num_buckets # 0
        /\ reader' = [NotReading EXCEPT !.op = "bucket", !.key = k,
                                        !.bkt = Bucket(k, num_buckets)]
        /\ disturbed' = (writer \in {"move", "swap"})
     \/ /\ num_buckets = 0
        /\ \E p \in Pointers :
             reader' = [NotReading EXCEPT !.op = "chain", !.key = k, !.out = p]
        /\ disturbed' = TRUE
  /\ before' = Findable
  /\ UNCHANGED <<list, chains, table, writer, add, move, iter>>

(* HASH_FIND_IN_BKT: the head of the bucket.  The table may be gone, or its *)
(* buckets freed (writer = "swap"): then anything may be there.             *)
FindBucket ==
  /\ reader.op = "bucket"
  /\ \E p \in IF reader.bkt \in DOMAIN buckets /\ writer # "swap"
              THEN {buckets[reader.bkt].hh_head} ELSE Pointers :
       reader' = [reader EXCEPT !.op = "chain", !.out = p]
  /\ UNCHANGED <<list, chains, table, writer, add, move, iter, before, disturbed>>

Found == reader.out # Null /\ Key[reader.out] = reader.key

FindStep ==
  /\ reader.op = "chain"
  /\ reader.out # Null /\ ~Found
  /\ reader' = [reader EXCEPT !.out = hh_next[reader.out]]
  /\ UNCHANGED <<list, chains, table, writer, add, move, iter, before, disturbed>>

FindEnd ==
  /\ reader.op = "chain"
  /\ reader.out = Null \/ Found
  /\ reader' = NotReading
  /\ before' = <<>>
  /\ disturbed' = FALSE
  /\ UNCHANGED <<list, chains, table, writer, add, move, iter>>

(* for(c = clients_list; c != NULL; c = c->hh.next), with list_mutex, which *)
(* remove_client holds in its loop.                                         *)
ScanBegin ==
  /\ reader.op = "none"
  /\ writer # "iter"
  /\ reader' = [NotReading EXCEPT !.op = "iterate", !.out = head]
  /\ before' = Order
  /\ disturbed' = FALSE
  /\ UNCHANGED <<list, chains, table, writer, add, move, iter>>

ScanStep ==
  /\ reader.op = "iterate"
  /\ reader.out # Null
  /\ reader' = [reader EXCEPT !.seen = Append(@, reader.out), !.out = next[reader.out]]
  /\ UNCHANGED <<list, chains, table, writer, add, move, iter, before, disturbed>>

ScanEnd ==
  /\ reader.op = "iterate"
  /\ reader.out = Null
  /\ reader' = NotReading
  /\ before' = <<>>
  /\ UNCHANGED <<list, chains, table, writer, add, move, iter, disturbed>>
-----------------------------------------------------------------------------
Nowhere == [e \in Elems |-> Null]

Init ==
  /\ head = Null
  /\ next = Nowhere /\ prev = Nowhere /\ hh_next = Nowhere /\ hh_prev = Nowhere
  /\ tail = Null /\ num_items = 0 /\ num_buckets = 0 /\ buckets = <<>>
  /\ ineff_expands = 0 /\ noexpand = FALSE
  /\ writer = "idle" /\ add = Null /\ move = NoMove /\ iter = NoIter
  /\ reader = NotReading /\ before = <<>> /\ disturbed = FALSE

Next ==
  \/ \E e \in Elems : AddLink(e) \/ DeleteOne(e)
  \/ HASH_MAKE_TABLE \/ AddChain \/ AddPublish
  \/ ExpandBegin \/ ExpandMove \/ ExpandNextBucket \/ ExpandSwap
  \/ \E k \in Keys : IterBegin({k}) \/ FindBegin(k)
  \/ IterBegin(Keys) \/ IterStep \/ IterEnd
  \/ FindBucket \/ FindStep \/ FindEnd
  \/ ScanBegin \/ ScanStep \/ ScanEnd

Spec == Init /\ [][Next]_vars
-----------------------------------------------------------------------------
(* The links back are the links forth.                                      *)
DoublyLinked(s, back) ==
  \A i \in DOMAIN s : back[s[i]] = IF i = 1 THEN Null ELSE s[i - 1]

(* What HASH_FSCK (uthash.h:278-328) would find in a debug build, after     *)
(* every addition, deletion and expansion: links, counts and tail are       *)
(* right, and every element is in the bucket its hash belongs to now.       *)
Fsck ==
  writer = "idle" /\ head # Null =>
    LET o == Order
        Sound(b) ==
          LET c == Along(hh_next, buckets[b].hh_head)
          IN  /\ DoublyLinked(c, hh_prev)
              /\ buckets[b].count = Len(c)
              /\ Members(c) = {e \in Members(o) : Bucket(Key[e], num_buckets) = b}
    IN  /\ DoublyLinked(o, prev)
        /\ tail = o[Len(o)] /\ num_items = Len(o)
        /\ DOMAIN buckets = 0..(num_buckets - 1)
        /\ \A b \in DOMAIN buckets : Sound(b)

(* The list is the abstract map, also between the steps of an addition and  *)
(* of an expansion, and through deletions inside a loop.                    *)
Map == INSTANCE OrderedMap WITH order <- Order
IsOrderedMap == Map!Spec

(* A lookup with no mutex (server.c:360) that overlaps nothing but plain    *)
(* additions gives an element with the key if there was one when it began,  *)
(* whatever deletions and doublings went before.                            *)
LookupFinds ==
  reader.op = "chain" /\ ~disturbed /\ reader.out = Null =>
    ~\E i \in DOMAIN before : Key[before[i]] = reader.key

(* push_solution goes through clients_list (server.c:375) while clients add *)
(* themselves to it without list_mutex (server.c:162): it meets everyone    *)
(* who was there at the start, in that order.                               *)
ScanComplete ==
  reader.op = "iterate" /\ reader.out = Null =>
    Len(before) <= Len(reader.seen) /\ SubSeq(reader.seen, 1, Len(before)) = before

(* When the loop of remove_client or cleanup is over, no element it was to  *)
(* delete is left (server.c:428-433, 563-572), equal keys included.         *)
LoopDeletes ==
  writer = "iter" /\ iter.el = Null => \A e \in Listed : Key[e] \notin iter.keys
==============================================================================
