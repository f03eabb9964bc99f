----------------------------- MODULE TextIndex -----------------------------
(***************************************************************************)
(* The inverted index of vm/modules/vector-db/src/text.c: a hash table of  *)
(* terms, each with an array of postings sorted by slot, and for each slot *)
(* the references a later removal follows.                                 *)
(*                                                                         *)
(* The callers hold the lock of the database, so one call runs at a time;  *)
(* its loops take one step a token, a reference or an entry.  Arrays count *)
(* from 1 here, the cells of the hash table from 0.  A text is the         *)
(* sequence of its tokens; malloc does not fail.  Scores are left out: a   *)
(* search is the postings it reads and the totals it computes with.        *)
(***************************************************************************)
EXTENDS Integers, SequencesExt

CONSTANTS
    Slots,
    Terms,
    Texts,      \* what a record may say: sequences of terms
    Home,       \* the hash of a term
    InitialCap, \* 256
    MaxTf,      \* bound: a posting that counts more is not bumped by a new text
    None

ASSUME IndexAssumption ==
    /\ Slots \subseteq Nat /\ IsFiniteSet(Slots)
    /\ Texts \subseteq Seq(Terms) /\ <<>> \in Texts
    /\ Home \in [Terms -> Nat]
    /\ InitialCap \in Nat \ {0}
    /\ MaxTf \in Nat
    /\ None \notin Terms

VARIABLES
    cap,
    count,    \* cells in use
    entries,  \* the cells
    refs,     \* docs[slot].refs
    doclen,
    nDocs,
    totalLen,
    task,     \* the call that runs, and how far it is
    grown,    \* ncap, ne and i of map_grow
    \* history:
    texts,    \* the tokens of a slot that were added and not removed
    moved     \* the table has grown while it held a document

table == <<cap, count, entries>>
totals == <<doclen, nDocs, totalLen>>
history == <<texts, moved>>
vars == <<table, refs, totals, task, grown, history>>

Posting == [slot : Slots, tf : Nat]
Entry == [term : Terms \cup {None}, post : Seq(Posting)]
Ref == [term : Nat, at : Nat \ {0}]

Empty == [term |-> None, post |-> <<>>]
NoTask == [op |-> "none", slot |-> 0, text |-> <<>>, at |-> 0]

Cells(c) == 0 .. c - 1

NoTable == [cap |-> 0, entries |-> [c \in Cells(0) |-> Empty], from |-> 0]

TypeOK ==
    /\ cap \in Nat /\ count \in Nat
    /\ entries \in [Cells(cap) -> Entry]
    /\ refs \in [Slots -> Seq(Ref)]
    /\ doclen \in [Slots -> Nat] /\ nDocs \in Nat /\ totalLen \in Int
    /\ task \in [op : {"none", "remove", "add", "grow"}, slot : Nat,
                 text : Seq(Terms), at : Nat]
    /\ task.at <= Len(task.text)
    /\ IF task.op = "none" THEN task = NoTask ELSE task.slot \in Slots
    /\ grown.cap \in Nat /\ grown.from \in Nat
    /\ grown.entries \in [Cells(grown.cap) -> Entry]
    /\ grown = [cap |-> grown.cap, entries |-> grown.entries, from |-> grown.from]
    /\ texts \in [Slots -> Seq(Terms)] /\ moved \in BOOLEAN

Init ==
    /\ cap = 0 /\ count = 0
    /\ entries = [c \in Cells(0) |-> Empty]
    /\ refs = [s \in Slots |-> <<>>]
    /\ doclen = [s \in Slots |-> 0]
    /\ nDocs = 0 /\ totalLen = 0
    /\ task = NoTask /\ grown = NoTable
    /\ texts = [s \in Slots |-> <<>>] /\ moved = FALSE

-----------------------------------------------------------------------------
\* The cell a probe for term looks at after k steps.
Cell(c, term, k) == (Home[term] + k) % c

\* The probe of map_find and map_get_or_create for term ends after k steps:
\* at the term, or at a free cell.
Ends(term, k) ==
    /\ \A j \in 0 .. k - 1 : entries[Cell(cap, term, j)].term \notin {None, term}
    /\ entries[Cell(cap, term, k)].term \in {None, term}

\* Bad: map_grow does not look whether the cell is free.
BadFree(term, k) == k = 0

\* The probe of map_grow in the new table ends after k steps.
Free(term, k) ==
    /\ \A j \in 0 .. k - 1 : grown.entries[Cell(grown.cap, term, j)].term # None
    /\ grown.entries[Cell(grown.cap, term, k)].term = None

\* The binary search for slot ends at i.
Bound(post, slot, i) ==
    /\ \A j \in 1 .. i - 1 : post[j].slot < slot
    /\ \A j \in i .. Len(post) : post[j].slot >= slot

IsAt(post, slot, i) == i <= Len(post) /\ post[i].slot = slot

\* Bad: a posting that is not where it was when it was written is not
\* searched.
BadSought(post, slot, at, i) == i = IF at <= Len(post) THEN at ELSE Len(post) + 1

\* Where text_index_remove looks for the posting: where it was, else by a
\* binary search.
Sought(post, slot, at, i) ==
    IF IsAt(post, slot, at) THEN i = at ELSE Bound(post, slot, i)

-----------------------------------------------------------------------------
\* Bad: a text is added without a look at the one the slot has.
BadReplaces(slot) == FALSE

Replaces(slot) == doclen[slot] > 0

\* text_index_add: the old text goes first.  A text without tokens adds
\* nothing.
Add(slot, text) ==
    /\ task = NoTask
    /\ \A c \in Cells(cap) : \A i \in 1 .. Len(entries[c].post) :
           text # <<>> /\ entries[c].post[i].slot = slot => entries[c].post[i].tf <= MaxTf
    /\ \/ /\ Replaces(slot)
          /\ task' = [op |-> "remove", slot |-> slot, text |-> text, at |-> 0]
          /\ texts' = [texts EXCEPT ![slot] = <<>>]
       \/ /\ ~Replaces(slot)
          /\ task' = IF text = <<>> THEN NoTask
                     ELSE [op |-> "add", slot |-> slot, text |-> text, at |-> 0]
          /\ UNCHANGED texts
    /\ UNCHANGED <<table, refs, totals, grown, moved>>

\* text_index_remove as the database calls it.
RemoveDoc(slot) ==
    /\ task = NoTask
    /\ doclen[slot] > 0
    /\ task' = [op |-> "remove", slot |-> slot, text |-> <<>>, at |-> 0]
    /\ texts' = [texts EXCEPT ![slot] = <<>>]
    /\ UNCHANGED <<table, refs, totals, grown, moved>>

\* One turn of its loop, from the last reference to the first.
RemoveRef(i) ==
    /\ task.op = "remove" /\ refs[task.slot] # <<>>
    /\ LET ref == Last(refs[task.slot])
           post == entries[ref.term].post
       IN /\ i \in 1 .. Len(post) + 1
          /\ Sought(post, task.slot, ref.at, i)
          /\ entries' = IF IsAt(post, task.slot, i)
                        THEN [entries EXCEPT ![ref.term].post = RemoveAt(post, i)]
                        ELSE entries
    /\ refs' = [refs EXCEPT ![task.slot] = Front(@)]
    /\ UNCHANGED <<cap, count, totals, task, grown, history>>

RemoveDone ==
    /\ task.op = "remove" /\ refs[task.slot] = <<>>
    /\ totalLen' = totalLen - doclen[task.slot]
    /\ doclen' = [doclen EXCEPT ![task.slot] = 0]
    /\ nDocs' = IF nDocs = 0 THEN 0 ELSE nDocs - 1
    /\ task' = IF task.text = <<>> THEN NoTask ELSE [task EXCEPT !.op = "add"]
    /\ UNCHANGED <<table, refs, grown, history>>

-----------------------------------------------------------------------------
Adding == task.op = "add" /\ task.at < Len(task.text)

Token == task.text[task.at + 1]

\* The test of map_get_or_create, before it looks for the term.  A table
\* that has just grown passes it.
Full == cap = 0 \/ (count + 1) * 4 >= cap * 3

\* map_grow: the cells move to a table of twice the size, the references
\* keep the numbers of the old cells.
GrowStart ==
    /\ Adding /\ Full
    /\ LET ncap == IF cap = 0 THEN InitialCap ELSE 2 * cap
       IN grown' = [cap |-> ncap, from |-> 0, entries |-> [c \in Cells(ncap) |-> Empty]]
    /\ task' = [task EXCEPT !.op = "grow"]
    /\ moved' = (moved \/ \E s \in Slots : refs[s] # <<>>)
    /\ UNCHANGED <<table, refs, totals, texts>>

GrowSkip ==
    /\ task.op = "grow" /\ grown.from < cap
    /\ entries[grown.from].term = None
    /\ grown' = [grown EXCEPT !.from = @ + 1]
    /\ UNCHANGED <<table, refs, totals, task, history>>

GrowMove(k) ==
    /\ task.op = "grow" /\ grown.from < cap
    /\ LET old == entries[grown.from]
       IN /\ old.term # None
          /\ Free(old.term, k)
          /\ grown' = [grown EXCEPT !.from = @ + 1,
                                    !.entries[Cell(grown.cap, old.term, k)] = old]
    /\ UNCHANGED <<table, refs, totals, task, history>>

GrowDone ==
    /\ task.op = "grow" /\ grown.from = cap
    /\ cap' = grown.cap /\ entries' = grown.entries
    /\ task' = [task EXCEPT !.op = "add"]
    /\ grown' = NoTable
    /\ UNCHANGED <<count, refs, totals, history>>

\* The rest of the turn for a token: what the cell c holds now, and that the
\* token was counted.
Counted(c, post) ==
    /\ entries' = [entries EXCEPT ![c] = [term |-> Token, post |-> post]]
    /\ count' = IF entries[c].term = None THEN count + 1 ELSE count
    /\ task' = [task EXCEPT !.at = @ + 1]
    /\ texts' = [texts EXCEPT ![task.slot] = Append(@, Token)]
    /\ UNCHANGED <<cap, totals, grown, moved>>

\* A token of which the slot has a posting.
AddAgain(k, i) ==
    /\ Adding /\ ~Full
    /\ Ends(Token, k)
    /\ LET c == Cell(cap, Token, k)
           post == entries[c].post
       IN /\ i \in 1 .. Len(post)
          /\ Bound(post, task.slot, i) /\ IsAt(post, task.slot, i)
          /\ Counted(c, [post EXCEPT ![i].tf = @ + 1])
    /\ UNCHANGED refs

\* A token that is new to the slot: posting_insert and doc_add_ref.
AddFirst(k, i) ==
    /\ Adding /\ ~Full
    /\ Ends(Token, k)
    /\ LET c == Cell(cap, Token, k)
           post == entries[c].post
       IN /\ i \in 1 .. Len(post) + 1
          /\ Bound(post, task.slot, i) /\ ~IsAt(post, task.slot, i)
          /\ Counted(c, InsertAt(post, i, [slot |-> task.slot, tf |-> 1]))
          /\ refs' = [refs EXCEPT ![task.slot] = Append(@, [term |-> c, at |-> i])]

AddDone ==
    /\ task.op = "add" /\ task.at = Len(task.text)
    /\ doclen' = [doclen EXCEPT ![task.slot] = task.at]
    /\ nDocs' = nDocs + 1
    /\ totalLen' = totalLen + task.at
    /\ task' = NoTask
    /\ UNCHANGED <<table, refs, grown, history>>

Next ==
    \/ \E s \in Slots : RemoveDoc(s) \/ \E text \in Texts : Add(s, text)
    \/ \E i \in 1 .. Cardinality(Slots) + 1 : RemoveRef(i)
    \/ RemoveDone
    \/ GrowStart \/ GrowSkip \/ GrowDone
    \/ \E k \in Cells(grown.cap) : GrowMove(k)
    \/ \E k \in Cells(cap), i \in 1 .. Cardinality(Slots) + 1 :
           AddAgain(k, i) \/ AddFirst(k, i)
    \/ AddDone

Spec == Init /\ [][Next]_vars

-----------------------------------------------------------------------------
\* How often the first tokens of a slot say term.
Said(slot, term) == Cardinality({i \in 1 .. Len(texts[slot]) : texts[slot][i] = term})

\* map_find leads to a posting of slot that counts at least least.
Found(term, slot, least) ==
    \E k \in Cells(cap) :
        LET e == entries[Cell(cap, term, k)]
        IN /\ Ends(term, k) /\ e.term = term
           /\ \E i \in 1 .. Len(e.post) : e.post[i].slot = slot /\ e.post[i].tf >= least

\* A search misses no document: every term a slot was given is found with the
\* slot, and counted at least as often as the text says it, also while the
\* table grows and after references went stale (map_grow, posting_insert,
\* text_index_remove, which removes only the slot it is called for).
FoundAll ==
    \A s \in Slots : \A n \in 1 .. Len(texts[s]) :
        Found(texts[s][n], s, Said(s, texts[s][n]))

\* A search finds nothing else: no text that was replaced or removed, no term
\* twice, each as often as it is said, unless the table has grown while it
\* held a document (internal.h "Remove a slot from the index.").
FoundOnly ==
    ~moved /\ task = NoTask =>
        \A c \in Cells(cap) : \A i \in 1 .. Len(entries[c].post) :
            LET p == entries[c].post[i]
            IN /\ p.tf = Said(p.slot, entries[c].term) /\ p.tf > 0
               /\ \A j \in 1 .. Len(entries[c].post) :
                      entries[c].post[j].slot = p.slot => i = j

\* The lengths and totals BM25 computes with are those of the texts that are
\* there, however often texts replaced others (text_index_add,
\* text_index_remove).
TotalsExact ==
    task = NoTask =>
        /\ \A s \in Slots : doclen[s] = Len(texts[s])
        /\ nDocs = Cardinality({s \in Slots : texts[s] # <<>>})
        /\ totalLen = Cardinality(UNION {{s} \X (1 .. Len(texts[s])) : s \in Slots})
=============================================================================
