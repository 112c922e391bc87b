---------------------------- MODULE ResultStream ----------------------------
(***************************************************************************)
(* ContentServer.StreamModerationResults (internal/adapter/inbound/grpc):  *)
(* a user's contents are read page by page, newest first, and the cached   *)
(* moderation result of each is sent if there is one.  Between two pages   *)
(* others create and delete contents.                                      *)
(*                                                                         *)
(* A content is the number of its created_at stamp; no two are equal.  The *)
(* stamp is taken before the row is saved, so rows may appear in any       *)
(* order.                                                                  *)
(***************************************************************************)
EXTENDS Naturals, FiniteSets

CONSTANTS
  Contents,                \* the user's contents, ordered by created_at
  PageSize,                \* pageSize of StreamModerationResults
  MaxLimit, DefaultLimit   \* ListUserContents replaces a limit above the one
                           \* by the other

ASSUME StreamAssumption ==
  /\ Contents \subseteq Nat /\ IsFiniteSet(Contents)
  /\ PageSize \in Nat \ {0}
  /\ MaxLimit \in Nat /\ PageSize <= MaxLimit
  /\ DefaultLimit \in Nat \ {0}

VARIABLES
  row,                     \* Postgres: what became of each content
  at,                      \* the stream is ended, lists a page or visits one
  offset,                  \* where its page begins
  page,                    \* the contents of the page it has yet to visit
  full,                    \* the page had PageSize contents
  visits,                  \* history: how often it came to each content
  before,                  \* history: the rows when it began
  inserted, removed        \* history: rows created and deleted since

stream     == <<at, offset, page, full>>
streamHist == <<visits, before, inserted, removed>>
streamVars == <<row, stream, streamHist>>

Rows == {c \in Contents : row[c] = "stored"}

StreamInit ==
  /\ row = [c \in Contents |-> "unsaved"]
  /\ at = "ended"
  /\ offset = 0
  /\ page = {}
  /\ full = FALSE
  /\ visits = [c \in Contents |-> 0]
  /\ before = {}
  /\ inserted = 0
  /\ removed = 0

-----------------------------------------------------------------------------
(* The contents table                                                      *)

Save(c) ==
  /\ row[c] = "unsaved"
  /\ row' = [row EXCEPT ![c] = "stored"]
  /\ inserted' = IF at = "ended" THEN inserted ELSE inserted + 1
  /\ UNCHANGED <<stream, visits, before, removed>>

Delete(c) ==
  /\ row[c] = "stored"
  /\ row' = [row EXCEPT ![c] = "deleted"]
  /\ removed' = IF at = "ended" THEN removed ELSE removed + 1
  /\ UNCHANGED <<stream, visits, before, inserted>>

LimitRaised(n) == IF n = 0 \/ n > MaxLimit THEN DefaultLimit ELSE MaxLimit

\* ListUserContents: the limit is put in range.
Limit(n) == IF n = 0 \/ n > MaxLimit THEN DefaultLimit ELSE n

RankFromOne(c) == Cardinality({d \in Rows : d >= c})

\* ORDER BY created_at DESC: how many rows come before c.
Rank(c) == Cardinality({d \in Rows : d > c})

\* FindByUserID with its LIMIT and OFFSET.
FindByUserID(limit, off) ==
  {c \in Rows : off <= Rank(c) /\ Rank(c) < off + limit}

-----------------------------------------------------------------------------
(* StreamModerationResults                                                 *)

Open ==
  /\ at = "ended"
  /\ at' = "list"
  /\ offset' = 0
  /\ page' = {}
  /\ full' = FALSE
  /\ visits' = [c \in Contents |-> 0]
  /\ before' = Rows
  /\ inserted' = 0
  /\ removed' = 0
  /\ UNCHANGED row

\* The next page, or the end of a stream that finds none.  The history of a
\* stream that fails is dropped: only a stream that ran to its end is judged.
List ==
  /\ at = "list"
  /\ LET found == FindByUserID(Limit(PageSize), offset) IN
     /\ page' = found
     /\ full' = (Cardinality(found) >= PageSize)
     /\ at' = IF found = {} THEN "ended" ELSE "visit"
  /\ UNCHANGED <<row, offset, streamHist>>

Newest == CHOOSE c \in page : \A d \in page : d <= c

\* GetModerationResult finds the result and it is sent, or the content is
\* passed over, which an expired key and a failed lookup look like.
Visit ==
  /\ at = "visit" /\ page # {}
  /\ visits' = [visits EXCEPT ![Newest] = @ + 1]
  /\ page' = page \ {Newest}
  /\ UNCHANGED <<row, at, offset, full, before, inserted, removed>>

\* A page that is not full is the last one.
Turn ==
  /\ at = "visit" /\ page = {}
  /\ at' = IF full THEN "list" ELSE "ended"
  /\ offset' = IF full THEN offset + PageSize ELSE offset
  /\ UNCHANGED <<row, page, full, streamHist>>

\* A query or a send fails, or the peer goes away.
Break ==
  /\ at # "ended"
  /\ at' = "ended"
  /\ visits' = [c \in Contents |-> 0]
  /\ before' = {}
  /\ inserted' = 0
  /\ removed' = 0
  /\ page' = {}
  /\ UNCHANGED <<row, offset, full>>

StreamNext ==
  \/ Open \/ List \/ Visit \/ Turn \/ Break
  \/ \E c \in Contents : Save(c) \/ Delete(c)

StreamSpec == StreamInit /\ [][StreamNext]_streamVars
-----------------------------------------------------------------------------
(* What the reader of the stream may rely on                               *)

\* The state is well formed.  A page begins at a multiple of PageSize and is no
\* longer, so that no row of an unchanged table is on two pages.  (That none is
\* skipped, and what changes of the table do, is DriftBounded's matter.)
StreamTypeOK ==
  /\ row \in [Contents -> {"unsaved", "stored", "deleted"}]
  /\ at \in {"ended", "list", "visit"}
  /\ offset \in Nat /\ offset % PageSize = 0
  /\ page \in SUBSET Contents /\ Cardinality(page) <= PageSize
  /\ full \in BOOLEAN
  /\ visits \in [Contents -> Nat]
  /\ before \in SUBSET Contents
  /\ inserted \in Nat /\ removed \in Nat

Missed == {c \in before \cap Rows : visits[c] = 0}

\* The visits beyond the first of each content.
Again == {v \in Contents \X (1 .. Cardinality(Contents) + 1) : v[2] < visits[v[1]]}

\* Paging by offset drifts by no more than the changes made meanwhile: a stream
\* that ran to its end has missed no more of the contents that were there all
\* along than contents were deleted, and at no time has it come back to
\* contents more often than contents were created.
DriftBounded ==
  /\ at = "ended" => Cardinality(Missed) <= removed
  /\ Cardinality(Again) <= inserted
=============================================================================
