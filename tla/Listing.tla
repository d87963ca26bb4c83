------------------------------- MODULE Listing -------------------------------
(***************************************************************************)
(* List: a client pages through the receipts of a queue, newest first,     *)
(* while requests arrive and change their status.                          *)
(*                                                                         *)
(* A page is one call.  The call reads receipts in batches, the summary    *)
(* of each receipt on its own, and keeps those that pass the filter, until *)
(* the page is full, the window is exhausted or the read budget is spent.  *)
(* The page token carries the window, the filter and the last receipt      *)
(* read, matched or not.                                                   *)
(***************************************************************************)
EXTENDS Integers, Sequences, FiniteSets, SequencesExt

CONSTANTS
    MaxReceipt,  \* bound: receipts
    MaxStamp,    \* bound: the times of receipt
    PageSize,    \* page_size, after the default and the limit are applied
    Budget,      \* maxFilteredListReceipts
    Filters,     \* the status filters; {} is none
    Windows      \* the windows asked for, as [from, before) pairs

Receipt == 1 .. MaxReceipt
Stamp == 1 .. MaxStamp
ListStatus == {"accepted", "landed"}
NoCursor == [at |-> 0, id |-> 0]

VARIABLES
    stamp,     \* receipt -> when it was received; 0 while there is none
    status,    \* receipt -> the status of its request's summary
    lister,    \* the List call: its page token and its scan
    listed,    \* the requests returned so far, in the order returned
    due        \* listed or not, the client must get these (see NoneMissed)

listVars == <<stamp, status, lister, listed, due>>

Present == {r \in Receipt : stamp[r] # 0}

ListTypeOK ==
    /\ stamp \in [Receipt -> 0 .. MaxStamp]
    /\ status \in [Receipt -> ListStatus]
    /\ lister.pc \in {"idle", "query", "summaries", "page", "done"}
    /\ listed \in Seq(Receipt) /\ due \subseteq Receipt

ListInit ==
    /\ stamp = [r \in Receipt |-> 0]
    /\ status = [r \in Receipt |-> "accepted"]
    /\ lister = [pc |-> "idle"]
    /\ listed = <<>> /\ due = {}

-----------------------------------------------------------------------------
(* The receipt store.                                                       *)

(* Mutant: the cursor compares times only.                                  *)
BeforeCursorByTime(r, c) == c = NoCursor \/ stamp[r] < c.at

(* Mutant: the receipt at the cursor is read again.                         *)
BeforeCursorInclusive(r, c) ==
    c = NoCursor \/ stamp[r] < c.at \/ (stamp[r] = c.at /\ r <= c.id)

BeforeCursor(r, c) == c = NoCursor \/ stamp[r] < c.at \/ (stamp[r] = c.at /\ r < c.id)

Newer(r, s) == stamp[r] > stamp[s] \/ (stamp[r] = stamp[s] /\ r > s)

(* The first limit receipts of the window before the cursor, newest first.  *)
ListReceipts(window, cursor, limit) ==
    LET found == SetToSortSeq({r \in Present : /\ window[1] <= stamp[r] /\ stamp[r] < window[2]
                                               /\ BeforeCursor(r, cursor)}, Newer)
    IN  SubSeq(found, 1, IF Len(found) < limit THEN Len(found) ELSE limit)

Matches(filter, s) == filter = {} \/ s \in filter

-----------------------------------------------------------------------------
(* List.                                                                    *)

(* The first page: the window and the filter come from the request.         *)
FirstPage ==
    /\ lister.pc = "idle"
    /\ \E window \in Windows, filter \in Filters :
          /\ lister' = [pc |-> "query", window |-> window, filter |-> filter, cursor |-> NoCursor,
                        batch |-> <<>>, more |-> FALSE, count |-> 0, scanned |-> 0]
          /\ due' = {r \in Present : /\ window[1] <= stamp[r] /\ stamp[r] < window[2]
                                     /\ Matches(filter, status[r])}
    /\ UNCHANGED <<stamp, status, listed>>

ReadBudget(filter) == IF filter = {} THEN PageSize ELSE Budget

(* One read of receipts, one more than wanted to learn if the window goes on. *)
ReadReceipts ==
    LET l == lister
        want == IF PageSize - l.count < ReadBudget(l.filter) - l.scanned
                THEN PageSize - l.count ELSE ReadBudget(l.filter) - l.scanned
        found == ListReceipts(l.window, l.cursor, want + 1)
    IN  /\ l.pc = "query"
        /\ lister' = [l EXCEPT !.pc = "summaries", !.more = Len(found) > want,
                               !.batch = IF Len(found) > want THEN Front(found) ELSE found]
        /\ UNCHANGED <<stamp, status, listed, due>>

(* The summary of the next receipt of the batch.                            *)
ReadListSummary ==
    LET l == lister
        r == Head(l.batch)
        match == Matches(l.filter, status[r])
    IN  /\ l.pc = "summaries" /\ l.batch # <<>>
        /\ lister' = [l EXCEPT !.batch = Tail(@), !.scanned = @ + 1,
                               !.count = IF match THEN @ + 1 ELSE @,
                               !.cursor = [at |-> stamp[r], id |-> r]]
        /\ listed' = IF match THEN Append(listed, r) ELSE listed
        /\ UNCHANGED <<stamp, status, due>>

(* The batch is read: go on, return a page with a token, or end.            *)
EndOfBatch ==
    LET l == lister IN
    /\ l.pc = "summaries" /\ l.batch = <<>>
    /\ lister' = [l EXCEPT !.pc = IF ~l.more THEN "done"
                                  ELSE IF l.count = PageSize \/ l.scanned = ReadBudget(l.filter)
                                       THEN "page" ELSE "query"]
    /\ UNCHANGED <<stamp, status, listed, due>>

(* The client comes back with the token.                                    *)
NextPage ==
    /\ lister.pc = "page"
    /\ lister' = [lister EXCEPT !.pc = "query", !.count = 0, !.scanned = 0]
    /\ UNCHANGED <<stamp, status, listed, due>>

(* A request becomes public; its receipt carries the time Land received it, so
   it may be older than what has been listed.                               *)
CreateReceipt(r) ==
    /\ stamp[r] = 0 /\ (r > 1 => stamp[r - 1] # 0)
    /\ \E at \in Stamp : stamp' = [stamp EXCEPT ![r] = at]
    /\ UNCHANGED <<status, lister, listed, due>>

(* A request lands: one that was due may no longer match.                   *)
ChangeStatus(r) ==
    /\ r \in Present /\ status[r] = "accepted"
    /\ status' = [status EXCEPT ![r] = "landed"]
    /\ due' = IF lister.pc = "idle" THEN due
              ELSE {s \in due : s = r => Matches(lister.filter, "landed")}
    /\ UNCHANGED <<stamp, lister, listed>>

List == FirstPage \/ ReadReceipts \/ ReadListSummary \/ EndOfBatch \/ NextPage

ListNext == List \/ \E r \in Receipt : CreateReceipt(r) \/ ChangeStatus(r)

ListSpec == ListInit /\ [][ListNext]_listVars /\ WF_listVars(ReadReceipts \/ ReadListSummary \/ EndOfBatch \/ NextPage)

-----------------------------------------------------------------------------
(* The pages, one after the other, are strictly newest first: nothing is
   returned twice, whatever arrives or changes between two pages.           *)
PagesDescend == \A i, j \in 1 .. Len(listed) : i < j => Newer(listed[i], listed[j])

(* A request that was listed when the client began, and passed the filter all
   the while, is on one of the pages.                                       *)
NoneMissed == lister.pc = "done" => due \subseteq ToSet(listed)

(* A client that follows the tokens gets to the last page.                  *)
ListingEnds == (lister.pc # "idle") ~> (lister.pc = "done")
=============================================================================
