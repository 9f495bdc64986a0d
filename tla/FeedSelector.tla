---------------------------- MODULE FeedSelector ----------------------------
(***************************************************************************)
(* What the hot switchover promises to the strategy behind it: at most one *)
(* of the two feeds is in charge, only the feed in charge changes the      *)
(* local book, and a halt empties the book before anything else happens to *)
(* the feeds.  A halt is two steps, the flag and then the book: whoever    *)
(* reads the book between them still finds what was there.  How            *)
(* connections are kept and how their events travel is not part of the     *)
(* promise.                                                                *)
(***************************************************************************)
CONSTANTS Condition,    \* the markets
          Offer,        \* what each feed may say about a market
          NoUpdate      \* no entry in the book

VARIABLES live,         \* the feeds believed to be connected
          halted,       \* trading is halted
          clearing,     \* a halt is under way: the book is yet to be emptied
          book          \* the last update taken for each market

feedVars == <<live, halted, clearing, book>>

Feed == {"Primary", "Backup"}

EmptyBook == [c \in Condition |-> NoUpdate]

(* The primary whenever it is live, otherwise the backup if that is.       *)
InCharge(s) == /\ s \in live
               /\ "Primary" \in live => s = "Primary"

FeedInit == live = {} /\ halted = TRUE /\ clearing = FALSE /\ book = EmptyBook

(* A feed comes up; only the primary reopens trading.                      *)
FeedUp(s) ==
    /\ ~clearing
    /\ live' = live \cup {s}
    /\ halted' = (halted /\ s # "Primary")
    /\ UNCHANGED <<clearing, book>>

(* A feed is lost.  Losing the primary with no backup begins a halt.       *)
FeedDown(s) ==
    /\ ~clearing
    /\ live' = live \ {s}
    /\ IF s = "Primary" /\ "Backup" \notin live
       THEN halted' = TRUE /\ clearing' = TRUE
       ELSE UNCHANGED <<halted, clearing>>
    /\ UNCHANGED book

(* Mutant: a halt keeps the book.                                          *)
ClearBook_Keep ==
    /\ clearing
    /\ clearing' = FALSE
    /\ UNCHANGED <<live, halted, book>>

(* The halt is completed.                                                  *)
ClearBook ==
    /\ clearing
    /\ clearing' = FALSE
    /\ book' = EmptyBook
    /\ UNCHANGED <<live, halted>>

(* The feed in charge delivers an update.                                  *)
Deliver(s, c, u) ==
    /\ ~halted
    /\ InCharge(s)
    /\ book' = [book EXCEPT ![c] = u]
    /\ UNCHANGED <<live, halted, clearing>>

FeedNext ==
    \/ ClearBook
    \/ \E s \in Feed :
          \/ FeedUp(s)
          \/ FeedDown(s)
          \/ \E c \in Condition, u \in Offer[s] : Deliver(s, c, u)

FeedSpec == FeedInit /\ [][FeedNext]_feedVars
=============================================================================
