-------------------------------- MODULE Slub --------------------------------
(***************************************************************************)
(* The slab allocator (mm/slub.c): kmalloc(), kfree(), the page structs,   *)
(* and the pages taken without kmalloc().  alloc_pages() and free_pages()  *)
(* are those of PageAllocator.tla.                                         *)
(*                                                                         *)
(* A free object's first word links it to the next; an object in use holds *)
(* in that word what its user puts there.  A cache serves from             *)
(* cache->freelist; objects that come back go to their slab's own list,    *)
(* page->freelist, which the cache takes over when its own is used up,     *)
(* without clearing it, if it still finds the slab:                        *)
(*                                                                         *)
(* cache_alloc_pages() calls list_add_tail(&cache->list, &page->slub_list) *)
(* where list_add_tail() takes the new node first.  This puts the cache    *)
(* into the ring of the new slab, a ring of two; the slabs before keep     *)
(* links to cache->list, but nothing leads to them any more.  A search     *)
(* sees the newest slab only, and list_del() of any slab of the cache,     *)
(* both of whose links are cache->list, leaves cache->list alone.          *)
(*                                                                         *)
(* The model follows the kernel until a list no longer means anything: the *)
(* next object is not a pointer ("wild"), lies in pages that were given    *)
(* back ("stale") or is in use ("double"), or a list is linked through an  *)
(* object in use ("overwrite").                                            *)
(***************************************************************************)
EXTENDS PageBlocks, FiniteSets

CONSTANTS
    Caches,         \* slub_allocator[]
    PagesPerSlub,   \* nr_page_per_slub
    PerPage,        \* objects in a page
    MinPartial,     \* min_partial
    PageArray,      \* pages of the array of page structs
    STRUCTURE_SIZE, \* pages of the kmem_cache structures
    MaxTables       \* bound on the pages taken by walk()

ASSUME SlubAssumption ==
    /\ {PagesPerSlub, PerPage, PageArray, STRUCTURE_SIZE} \subseteq Nat \ {0}
    /\ {MinPartial, MaxTables} \subseteq Nat

\* An object's address; its page is the quotient by PerPage.
Addrs == 0..Size * PerPage - 1
PageOf(a) == a \div PerPage
Objects(p) == p * PerPage .. (p + PagesPerSlub) * PerPage - 1

NULL == -1
Data == -2       \* a word that a user has written and that is no object's address

VARIABLES
    allocated,\* the blocks in use
    page,     \* flags, count, header, freelist, slub of each struct page
    list,     \* the slab that each cache's list leads to, if it leads to one
    nr_partial,
    cfree,    \* cache->freelist
    word,     \* the first word of each object
    kernel,   \* how far the kernel has come up, or why the model ends
    held,     \* history: objects in use
    big,      \* history: blocks in use that kmalloc() took from the buddy system
    own       \* history: blocks that the kernel never gives back

vars == <<allocated, page, list, nr_partial, cfree, word, kernel, held, big, own>>

Clear == [flags |-> "FREE", count |-> 0, header |-> NULL, freelist |-> NULL, slub |-> NULL]

Kernel == <<0, next_pow_of_2(Reserved)>>

Init ==
    /\ allocated = {Kernel}
    /\ page = [p \in Pages |-> Clear]
    /\ list = [c \in Caches |-> NULL]
    /\ nr_partial = [c \in Caches |-> 0]
    /\ cfree = [c \in Caches |-> NULL]
    /\ word = [a \in Addrs |-> NULL]
    /\ kernel = "page_init"
    /\ held = {} /\ big = {} /\ own = {Kernel}

-----------------------------------------------------------------------------
Fits(n) == Places(next_pow_of_2(n), allocated) # {}

\* What alloc_pages(n) serves, if it does.
Block(n) == Lowest(Places(next_pow_of_2(n), allocated))

Alloc(n) == Fits(n) /\ allocated' = allocated \cup {Block(n)}

-----------------------------------------------------------------------------
\* nr pages from p on, at least one, become attr.
set_page_attr(p, nr, attr) ==
    LET last == IF nr > 1 THEN p + nr - 1 ELSE p
    IN  [q \in Pages |->
            IF q \in p..last THEN [page[q] EXCEPT !.flags = attr, !.count = 0, !.header = p]
            ELSE page[q]]

clear_page_attr_First(pg, p) == [pg EXCEPT ![p] = Clear]     \* mutant: only the first page

\* The page p, which is a header, and those it leads to become free.
clear_page_attr(pg, p) == [q \in Pages |-> IF pg[q].header = p THEN Clear ELSE pg[q]]

\* The objects of a new slab at p, linked in the order of their addresses.
init_object_list(p) ==
    [a \in Addrs |-> IF a \notin Objects(p) THEN word[a]
                     ELSE IF a + 1 \in Objects(p) THEN a + 1 ELSE NULL]

\* A new slab for the cache c, at the page p, is the only one on c's list.
NewSlab(c, p) ==
    /\ Alloc(PagesPerSlub)
    /\ list' = [list EXCEPT ![c] = p]
    /\ nr_partial' = [nr_partial EXCEPT ![c] = @ + 1]

SlabStruct(c, p) == [set_page_attr(p, PagesPerSlub, "SLUB") EXCEPT ![p].slub = c]

-----------------------------------------------------------------------------
(* slub_init(), and the page tables.  Where there are no pages for it, the *)
(* kernel stays in a loop.                                                 *)

page_init ==
    /\ kernel = "page_init" /\ kernel' = "structures"
    /\ Alloc(PageArray) /\ own' = own \cup {Block(PageArray)}
    /\ page' = set_page_attr(Block(PageArray)[1], PageArray, "RESERVE")
    /\ UNCHANGED <<list, nr_partial, cfree, word, held, big>>

slub_structure_init ==
    /\ kernel = "structures" /\ kernel' = "caches"
    /\ Alloc(STRUCTURE_SIZE) /\ own' = own \cup {Block(STRUCTURE_SIZE)}
    /\ page' = set_page_attr(Block(STRUCTURE_SIZE)[1], STRUCTURE_SIZE, "RESERVE")
    /\ UNCHANGED <<list, nr_partial, cfree, word, held, big>>

\* A cache is created with one slab.
kmem_cache_create(c) ==
    LET p == Block(PagesPerSlub)[1] IN
    /\ kernel = "caches" /\ list[c] = NULL
    /\ NewSlab(c, p)
    /\ page' = SlabStruct(c, p)
    /\ cfree' = [cfree EXCEPT ![c] = p * PerPage]
    /\ word' = init_object_list(p)
    /\ kernel' = IF \A d \in Caches \ {c} : list[d] # NULL THEN "running" ELSE kernel
    /\ UNCHANGED <<held, big, own>>

\* walk() takes a page for a table, which never comes back; paging_init() does so
\* before there are caches.
Table ==
    /\ kernel \in {"page_init", "running"} /\ Cardinality(own) < MaxTables + 3
    /\ Alloc(1) /\ own' = own \cup {Block(1)}
    /\ UNCHANGED <<page, list, nr_partial, cfree, word, kernel, held, big>>

-----------------------------------------------------------------------------
(* Objects                                                                 *)

End(why) == kernel' = why /\ UNCHANGED <<allocated, page, list, nr_partial, cfree, word, held>>

\* The object a, first of a list with the words w, is served; memset() clears it.
\* The page structs are pg.
Pop(c, a, w, pg) ==
    /\ cfree' = [cfree EXCEPT ![c] = w[a]]
    /\ page' = [pg EXCEPT ![pg[PageOf(a)].header].count = @ + 1]
    /\ word' = [w EXCEPT ![a] = NULL]
    /\ held' = held \cup {a}
    /\ UNCHANGED kernel

OfCache(a, c) ==
    /\ page[PageOf(a)].flags = "SLUB"
    /\ page[page[PageOf(a)].header].slub = c

\* The list that the cache serves from begins with a.
Serve(c, a) ==
    \/ a = Data /\ End("wild")
    \/ a \in Addrs /\ ~OfCache(a, c) /\ End("stale")
    \/ a \in Addrs /\ OfCache(a, c) /\ a \in held /\ End("double")
    \/ /\ a \in Addrs /\ OfCache(a, c) /\ a \notin held
       /\ Pop(c, a, word, page) /\ UNCHANGED <<allocated, list, nr_partial>>

\* What list_for_each() finds for the cache c: the own list of the slab that c's list
\* leads to.
FoundList(c) == IF list[c] = NULL THEN NULL ELSE page[list[c]].freelist

kmem_cache_alloc(c) ==
    LET p == Block(PagesPerSlub)[1] IN
    /\ kernel = "running" /\ UNCHANGED <<big, own>>
    /\ \/ cfree[c] # NULL /\ Serve(c, cfree[c])
       \/ /\ cfree[c] = NULL /\ FoundList(c) # NULL
          /\ Serve(c, FoundList(c))
       \/ /\ cfree[c] = NULL /\ FoundList(c) = NULL
          /\ NewSlab(c, p) /\ Pop(c, p * PerPage, init_object_list(p), SlabStruct(c, p))

FreedSlab_Early(h, n) == n <= 1 /\ nr_partial[page[h].slub] > MinPartial    \* mutant: the old count

\* The slab at h goes back to the buddy system when n of its objects are in use.
FreedSlab(h, n) == n = 0 /\ nr_partial[page[h].slub] > MinPartial

LinkedIn_Last(a, f) == [word EXCEPT ![f] = a]      \* mutant: what followed f is lost

\* The words when a joins the list that begins with f, and goes on to do so.
LinkedIn(a, f) == [word EXCEPT ![a] = word[f], ![f] = a]

\* The user of a gives it back with w in its first word.  free_pages() is given
\* the address of the object.  What is in pages given back is never looked at.  With
\* any of its slabs the cache loses its list.
kmem_cache_free(a, w) ==
    LET h == page[PageOf(a)].header
        f == page[h].freelist
        freed == [page EXCEPT ![h].freelist = IF f = NULL THEN a ELSE f, ![h].count = @ - 1]
    IN
    /\ kernel = "running" /\ UNCHANGED <<big, own>>
    /\ \/ f \in held /\ End("overwrite")
       \/ /\ f \notin held /\ held' = held \ {a} /\ UNCHANGED <<cfree, kernel>>
          /\ IF FreedSlab(h, freed[h].count)
               THEN /\ allocated' = {b \in allocated : PageOf(a) \notin PagesOf(b)}
                    /\ page' = clear_page_attr(freed, h)
                    /\ list' = [list EXCEPT ![page[h].slub] = NULL]
                    /\ nr_partial' = [nr_partial EXCEPT ![page[h].slub] = @ - 1]
                    /\ word' = [o \in Addrs |-> IF o \in Objects(h) THEN NULL ELSE word[o]]
               ELSE /\ page' = freed /\ UNCHANGED <<allocated, list, nr_partial>>
                    /\ word' = IF f = NULL THEN [word EXCEPT ![a] = w] ELSE LinkedIn(a, f)

-----------------------------------------------------------------------------
(* More than 2048 bytes                                                    *)

\* kmalloc() of n pages; the last of several gets no attribute.
kmalloc(n) ==
    /\ kernel = "running" /\ Alloc(n)
    /\ page' = set_page_attr(Block(n)[1], n - 1, "BUDDY")
    /\ big' = big \cup {Block(n)}
    /\ UNCHANGED <<list, nr_partial, cfree, word, kernel, held, own>>

\* kfree() of such a block by one of its pages: delete_mapping() passes them one
\* after the other.  It ignores those without an attribute.
kfree(b, p) ==
    /\ kernel = "running" /\ p \in PagesOf(b) /\ page[p].flags = "BUDDY"
    /\ allocated' = allocated \ {b}
    /\ page' = clear_page_attr(page, page[p].header)
    /\ big' = big \ {b}
    /\ UNCHANGED <<list, nr_partial, cfree, word, kernel, held, own>>

Next ==
    \/ page_init \/ slub_structure_init \/ Table
    \/ \E c \in Caches : kmem_cache_create(c) \/ kmem_cache_alloc(c)
    \/ \E a \in held, w \in {NULL, Data} : kmem_cache_free(a, w)
    \/ \E n \in Requests : kmalloc(n)
    \/ \E b \in big, p \in Pages : kfree(b, p)

Spec == Init /\ [][Next]_vars

-----------------------------------------------------------------------------
Running == kernel = "running"

\* The slabs by their page structs, each with its cache.
Slabs ==
    {<<page[p].slub, p>> : p \in {q \in Pages : page[q].flags = "SLUB" /\ page[q].header = q}}

\* The objects on the list that begins with a.
Listed(a) ==
    LET within[n \in 0..PagesPerSlub * PerPage] ==
          IF n = 0 THEN {a} \cap Addrs
          ELSE within[n-1] \cup ({word[x] : x \in within[n-1]} \cap Addrs)
    IN  within[PagesPerSlub * PerPage]

\* A slab's own list, unless its cache has taken it over.
OwnList(p) == IF page[p].freelist \in held THEN {} ELSE Listed(page[p].freelist)

\* Every object of a cache is in use, or on the cache's list, or on the list of the
\* slab that the cache can take over next, or left behind on the list of a slab that
\* the cache no longer finds, and never two of these: kmem_cache_alloc() and
\* kmem_cache_free() lose objects in no other way, and have none to serve twice
\* (until the model ends).
ObjectsAccounted ==
    Running => \A s \in Slabs : \A o \in Objects(s[2]) :
        Cardinality({x \in {<<"user", o \in held>>, <<"cache", o \in Listed(cfree[s[1]])>>,
                            <<"slab", o \in OwnList(s[2]) /\ list[s[1]] = s[2]>>,
                            <<"behind", o \in OwnList(s[2]) /\ list[s[1]] # s[2]>>} : x[2]}) = 1

\* A slab counts its objects in use and all of those are in slabs, so that none is
\* given back to the buddy system with the slab, also with a slab that is on no list.
SlabCounts ==
    Running =>
        /\ \A s \in Slabs : page[s[2]].count = Cardinality(held \cap Objects(s[2]))
        /\ \A o \in held : \E s \in Slabs : o \in Objects(s[2])

\* The blocks in use are the kernel's, the slabs and what kmalloc() has served, and
\* the page structs tell kfree() which pages are a slab's and which a block's.  A cache
\* counts its slabs, those that it no longer finds too, and its list leads to one of
\* them or to none.
PagesAccounted ==
    Running =>
        /\ allocated = own \cup big \cup {<<s[2], next_pow_of_2(PagesPerSlub)>> : s \in Slabs}
        /\ \A p \in Pages :
              /\ page[p].flags = "SLUB" <=>
                    \E s \in Slabs : p \in s[2]..s[2] + PagesPerSlub - 1 /\ page[p].header = s[2]
              /\ page[p].flags = "BUDDY" =>
                    \E b \in big : p \in PagesOf(b) /\ page[p].header = b[1]
        /\ \A b \in big : page[b[1]].flags = "BUDDY"
        /\ \A c \in Caches :
              /\ nr_partial[c] = Cardinality({s \in Slabs : s[1] = c})
              /\ list[c] # NULL => <<c, list[c]>> \in Slabs

=============================================================================
