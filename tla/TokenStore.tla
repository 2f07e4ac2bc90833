------------------------------ MODULE TokenStore ------------------------------
(***************************************************************************)
(* The stored credentials of web_pool.rs: the list in memory, its file,    *)
(* and the workers that change them: imports (add_raw), deletions, and the *)
(* refresh of refresh.rs, which trades a one-time refresh token for the    *)
(* next one of its chain.  A chain begins with a login in the browser or   *)
(* through the gateway; token g of a chain is good for one trade, and only *)
(* while it is the newest.  A tab left open in the browser trades the same *)
(* tokens for itself.                                                      *)
(*                                                                         *)
(* A cookie is abstracted to the refresh token in it: that is what add_raw *)
(* tells apart and what rebuild_cookie replaces.  The auth service, the    *)
(* browser and the file system are external.                               *)
(***************************************************************************)
EXTENDS Integers, FiniteSets

CONSTANTS
    Ids,      \* credential ids (UUIDs: never used twice)
    Chains,   \* logins
    Configured,  \* those whose cookie is in the configuration (auth_tokens)
    Tabs,     \* those whose browser tab was not closed after the export
    Workers,  \* imports, deletions and refreshes under way at once
    Events,   \* what may happen besides: some of AllEvents
    MaxGen,   \* bound: trades per chain
    MaxTrades,  \* bound: trades of all chains
    NoToken, NoHand, Torn

AllEvents == {"delete", "lost answer", "failed save", "disconnect", "crash"}

Token == [chain : Chains, gen : 0..MaxGen]
Hand  == [id : Ids, token : Token]
Store == [Ids -> Token \cup {NoToken}]
Empty == [i \in Ids |-> NoToken]

ASSUME StoreAssumption ==
    /\ MaxGen \in Nat
    /\ MaxTrades \in Nat
    /\ Configured \subseteq Chains
    /\ Tabs \subseteq Chains
    /\ Events \subseteq AllEvents
    /\ NoToken \notin Token
    /\ NoHand \notin Hand
    /\ Torn \notin Store

VARIABLES
    mem,     \* creds: the credential list
    disk,    \* tokens.json: a whole list, or Torn
    unused,  \* ids no credential ever had
    newest,  \* the auth service: the newest token of each chain
    tab,     \* the browser: the token it holds of each chain
    pc,
    list,    \* what is left of the list a refresh works through
    hand,    \* the credential about to be pushed, or the token just traded
    copy,    \* the list a save is about to write
    boot,    \* load: the configured cookies it has yet to import
    spoilt   \* a save overlapped, failed or was skipped since one began alone

vars == <<mem, disk, unused, newest, tab, pc, list, hand, copy, boot, spoilt>>

Go(w, label) == pc' = [pc EXCEPT ![w] = label]

Init ==
    /\ mem = Empty
    /\ disk = Empty
    /\ unused = Ids
    /\ newest = [c \in Chains |-> 0]
    /\ tab = [c \in Chains |-> 0]
    /\ pc = [w \in Workers |-> "idle"]
    /\ list = [w \in Workers |-> Empty]
    /\ hand = [w \in Workers |-> NoHand]
    /\ copy = [w \in Workers |-> Empty]
    /\ boot = Configured
    /\ spoilt = FALSE

-------------------------------------------------------------------------------
(* add_raw.                                                                  *)

(* A configured cookie holds the first token of its chain; the one a user     *)
(* exports holds what the browser has by then.                               *)
First(c)    == [chain |-> c, gen |-> 0]
Exported(c) == [chain |-> c, gen |-> tab[c]]

(* The look for a duplicate, under the read lock; a duplicate ends it here. *)
AddRaw(w, token) ==
    /\ \A i \in Ids : mem[i] # token
    /\ \E i \in unused :
        /\ unused' = unused \ {i}
        /\ hand' = [hand EXCEPT ![w] = [id |-> i, token |-> token]]
    /\ Go(w, "push")
    /\ UNCHANGED <<mem, disk, newest, tab, list, copy, boot, spoilt>>

(* An import, or a login by password: a cookie nobody had before. *)
Import(w, c) ==
    /\ boot = {}
    /\ pc[w] = "idle"
    /\ AddRaw(w, Exported(c))

(* load imports the configured cookies, one after the other, before anything  *)
(* else runs.                                                                *)
BootImport(w, c) ==
    /\ c \in boot
    /\ \A u \in Workers : pc[u] = "idle"
    /\ AddRaw(w, First(c))

(* ... until each is in the list. *)
Booted(c) ==
    /\ c \in boot
    /\ \A u \in Workers : pc[u] = "idle"
    /\ \E i \in Ids : mem[i] = First(c)
    /\ boot' = boot \ {c}
    /\ UNCHANGED <<mem, disk, unused, newest, tab, pc, list, hand, copy, spoilt>>

(* The push, under the write lock; save follows. *)
Push(w) ==
    /\ pc[w] = "push"
    /\ mem' = [mem EXCEPT ![hand[w].id] = hand[w].token]
    /\ hand' = [hand EXCEPT ![w] = NoHand]
    /\ Go(w, "read")
    /\ UNCHANGED <<disk, unused, newest, tab, list, copy, boot, spoilt>>

(* Mutant of Delete: no save follows. *)
DeleteUnsaved(w, i) ==
    /\ "delete" \in Events
    /\ boot = {}
    /\ pc[w] = "idle"
    /\ mem[i] # NoToken
    /\ mem' = [mem EXCEPT ![i] = NoToken]
    /\ UNCHANGED <<disk, unused, newest, tab, pc, list, hand, copy, boot, spoilt>>

(* delete: retain; save follows. *)
Delete(w, i) ==
    /\ "delete" \in Events
    /\ boot = {}
    /\ pc[w] = "idle"
    /\ mem[i] # NoToken
    /\ mem' = [mem EXCEPT ![i] = NoToken]
    /\ Go(w, "read")
    /\ UNCHANGED <<disk, unused, newest, tab, list, hand, copy, boot, spoilt>>

-------------------------------------------------------------------------------
(* refresh_creds: one credential of its list after the other. *)

StartRefresh(w) ==
    /\ boot = {}
    /\ pc[w] = "idle"
    /\ list' = [list EXCEPT ![w] = mem]
    /\ Go(w, "refresh")
    /\ UNCHANGED <<mem, disk, unused, newest, tab, hand, copy, boot, spoilt>>

(* The loop goes on to another credential of the list. *)
DoneWith(w, i) == list' = [list EXCEPT ![w][i] = NoToken]

(* The service's tokens that were traded. *)
Spent == {token \in Token : token.gen < newest[token.chain]}

(* The service trades the newest token for its successor. *)
Trade(w, i) ==
    LET old == list[w][i] IN
    /\ newest[old.chain] = old.gen
    /\ old.gen < MaxGen /\ Cardinality(Spent) < MaxTrades
    /\ newest' = [newest EXCEPT ![old.chain] = old.gen + 1]
    /\ UNCHANGED tab

(* The tab's own refresh, every hour, with the same one-time token            *)
(* (README:77).                                                              *)
BrowserTrades(c) ==
    /\ c \in Tabs
    /\ tab[c] = newest[c]
    /\ newest[c] < MaxGen /\ Cardinality(Spent) < MaxTrades
    /\ newest' = [newest EXCEPT ![c] = @ + 1]
    /\ tab' = [tab EXCEPT ![c] = @ + 1]
    /\ UNCHANGED <<mem, disk, unused, pc, list, hand, copy, boot, spoilt>>

(* Mutant of Refreshed: the rebuilt cookie still holds the old token. *)
RefreshedKeepsOldToken(w, i) ==
    /\ pc[w] = "refresh"
    /\ list[w][i] # NoToken
    /\ DoneWith(w, i)
    /\ Trade(w, i)
    /\ hand' = [hand EXCEPT ![w] = [id |-> i, token |-> list[w][i]]]
    /\ Go(w, "update")
    /\ UNCHANGED <<mem, disk, unused, copy, boot, spoilt>>

(* refresh_session answered with the new token. *)
Refreshed(w, i) ==
    /\ pc[w] = "refresh"
    /\ list[w][i] # NoToken
    /\ DoneWith(w, i)
    /\ Trade(w, i)
    /\ hand' = [hand EXCEPT ![w] =
          [id |-> i, token |-> [list[w][i] EXCEPT !.gen = @ + 1]]]
    /\ Go(w, "update")
    /\ UNCHANGED <<mem, disk, unused, copy, boot, spoilt>>

(* The service traded the token and its answer was lost. *)
AnswerLost(w, i) ==
    /\ "lost answer" \in Events
    /\ pc[w] = "refresh"
    /\ list[w][i] # NoToken
    /\ DoneWith(w, i)
    /\ Trade(w, i)
    /\ UNCHANGED <<mem, disk, unused, pc, hand, copy, boot, spoilt>>

(* The service refused an old token, or was not reached. *)
NotRefreshed(w, i) ==
    /\ pc[w] = "refresh"
    /\ list[w][i] # NoToken
    /\ DoneWith(w, i)
    /\ UNCHANGED <<mem, disk, unused, newest, tab, pc, hand, copy, boot, spoilt>>

(* Mutant of Update: the whole list is put back from the refresh's copy. *)
UpdateFromList(w) ==
    /\ pc[w] = "update"
    /\ mem' = [list[w] EXCEPT ![hand[w].id] = hand[w].token]
    /\ hand' = [hand EXCEPT ![w] = NoHand]
    /\ Go(w, "read")
    /\ UNCHANGED <<disk, unused, newest, tab, list, copy, boot, spoilt>>

(* The new token is stored with the credential, if it is still there. *)
Update(w) ==
    /\ pc[w] = "update"
    /\ \/ /\ mem[hand[w].id] # NoToken
          /\ mem' = [mem EXCEPT ![hand[w].id] = hand[w].token]
       \/ /\ mem[hand[w].id] = NoToken
          /\ UNCHANGED mem
    /\ hand' = [hand EXCEPT ![w] = NoHand]
    /\ Go(w, "read")
    /\ UNCHANGED <<disk, unused, newest, tab, list, copy, boot, spoilt>>

(* Mutant of EndRefresh: the loop ends at the first credential that fails. *)
EndRefreshEarly(w) ==
    /\ pc[w] = "refresh"
    /\ Go(w, "idle")
    /\ UNCHANGED <<mem, disk, unused, newest, tab, list, hand, copy, boot, spoilt>>

EndRefresh(w) ==
    /\ pc[w] = "refresh"
    /\ list[w] = Empty
    /\ Go(w, "idle")
    /\ UNCHANGED <<mem, disk, unused, newest, tab, list, hand, copy, boot, spoilt>>

-------------------------------------------------------------------------------
(* save: the list is copied under the read lock and written without it.      *)

Saving(w) == pc[w] \in {"truncate", "write"}

SaveRead(w) ==
    /\ pc[w] = "read"
    /\ copy' = [copy EXCEPT ![w] = mem]
    /\ spoilt' = (\E u \in Workers : Saving(u))
    /\ Go(w, "truncate")
    /\ UNCHANGED <<mem, disk, unused, newest, tab, list, hand, boot>>

(* std::fs::write opens the file truncated, ... *)
Truncate(w) ==
    /\ pc[w] = "truncate"
    /\ disk' = Torn
    /\ Go(w, "write")
    /\ UNCHANGED <<mem, unused, newest, tab, list, hand, copy, boot, spoilt>>

(* After it a refresh goes on to its next credential.                         *)
EndSave(w) ==
    /\ copy' = [copy EXCEPT ![w] = Empty]
    /\ Go(w, IF list[w] = Empty THEN "idle" ELSE "refresh")
    /\ UNCHANGED <<mem, unused, newest, tab, list, hand, boot>>

(* ... then writes from the start.  When another save wrote meanwhile, the    *)
(* end of a longer list may stick out behind this one.                       *)
Write(w) ==
    /\ pc[w] = "write"
    /\ \/ disk' = copy[w]
       \/ disk # Torn /\ disk' = Torn
    /\ EndSave(w)
    /\ UNCHANGED spoilt

(* The file cannot be opened, or the disk is full before its end: save        *)
(* ignores it, and whoever called it goes on as if the list were saved.      *)
SaveFails(w) ==
    /\ "failed save" \in Events
    /\ \/ pc[w] = "truncate" /\ UNCHANGED disk
       \/ pc[w] = "write" /\ disk' = Torn
    /\ EndSave(w)
    /\ spoilt' = TRUE

(* The client of an import, a deletion or a refresh goes away and the         *)
(* handler is dropped at an await; the write itself has none.                *)
Disconnect(w) ==
    /\ "disconnect" \in Events
    /\ boot = {}
    /\ pc[w] \in {"push", "refresh", "update", "read"}
    /\ list' = [list EXCEPT ![w] = Empty]
    /\ hand' = [hand EXCEPT ![w] = NoHand]
    /\ spoilt' = (spoilt \/ pc[w] = "read")
    /\ Go(w, "idle")
    /\ UNCHANGED <<mem, disk, unused, newest, tab, copy, boot>>

(* load reads what is in the file; an unreadable file is an empty list.      *)
Loaded == IF disk = Torn THEN Empty ELSE disk

(* The process dies and is started again. *)
Crash ==
    /\ "crash" \in Events
    /\ mem' = Loaded
    /\ pc' = [w \in Workers |-> "idle"]
    /\ list' = [w \in Workers |-> Empty]
    /\ hand' = [w \in Workers |-> NoHand]
    /\ copy' = [w \in Workers |-> Empty]
    /\ boot' = Configured
    /\ spoilt' = FALSE
    /\ UNCHANGED <<disk, unused, newest, tab>>

Next ==
    \/ \E w \in Workers :
        \/ \E c \in Chains : Import(w, c) \/ BootImport(w, c)
        \/ \E i \in Ids : \/ Delete(w, i)
                          \/ Refreshed(w, i) \/ AnswerLost(w, i) \/ NotRefreshed(w, i)
        \/ Push(w) \/ StartRefresh(w) \/ Update(w) \/ EndRefresh(w)
        \/ SaveRead(w) \/ Truncate(w) \/ Write(w) \/ SaveFails(w)
        \/ Disconnect(w)
    \/ \E c \in Chains : Booted(c) \/ BrowserTrades(c)
    \/ Crash

Spec == Init /\ [][Next]_vars

-------------------------------------------------------------------------------
(* Properties. *)

(* Types; a worker has something in hand exactly before a push or an update, *)
(* and a list only while it refreshes.                                       *)
TypeOK ==
    /\ mem \in Store
    /\ disk \in Store \cup {Torn}
    /\ unused \subseteq Ids
    /\ newest \in [Chains -> 0..MaxGen]
    /\ tab \in [Chains -> 0..MaxGen]
    /\ pc \in [Workers -> {"idle", "push", "refresh", "update", "read",
                           "truncate", "write"}]
    /\ list \in [Workers -> Store]
    /\ hand \in [Workers -> Hand \cup {NoHand}]
    /\ copy \in [Workers -> Store]
    /\ boot \subseteq Configured
    /\ spoilt \in BOOLEAN
    /\ \A w \in Workers :
        /\ (hand[w] # NoHand) <=> (pc[w] \in {"push", "update"})
        /\ pc[w] \in {"idle", "push"} => list[w] = Empty

Newest(c) == [chain |-> c, gen |-> newest[c]]

(* The gateway can still refresh chain c: its newest token is stored, or was  *)
(* just traded for a credential that is still stored, or load is about to     *)
(* import it.                                                                *)
Alive(c) ==
    \/ \E i \in Ids : mem[i] = Newest(c)
    \/ \E w \in Workers : /\ pc[w] = "update"
                          /\ hand[w].token = Newest(c)
                          /\ mem[hand[w].id] # NoToken
    \/ c \in boot /\ newest[c] = 0

(* The steps that may lose chain c: a deletion of its credential, before its  *)
(* refresh or during it, an answer that does not arrive, a refresh dropped    *)
(* with the new token in hand, a trade by the browser's tab, and a restart,   *)
(* unless the file has its newest token or its cookie is configured and was   *)
(* never refreshed.                                                          *)
MayLose(c) ==
    \/ BrowserTrades(c)
    \/ /\ Crash
       /\ ~\E i \in Ids : Loaded[i] = Newest(c)
       /\ c \in Configured => newest[c] > 0
    \/ \E w \in Workers :
        \/ Disconnect(w) /\ hand[w] # NoHand /\ hand[w].token.chain = c
        \/ \E i \in Ids :
            \/ Delete(w, i) /\ mem[i].chain = c
            \/ AnswerLost(w, i) /\ list[w][i].chain = c
            \/ Refreshed(w, i) /\ mem[i] = NoToken /\ list[w][i].chain = c

(* Nothing else does, whatever imports, deletions and refreshes happen at the *)
(* same time: a chain the gateway can refresh stays one it can refresh        *)
(* (README:84, the chain goes on for ever).                                  *)
ChainsStayAlive ==
    [][\A c \in Chains : Alive(c) => Alive(c)' \/ MayLose(c)]_vars

(* A traded token is in one place only until it is stored: no other worker    *)
(* has it, no list or credential holds it yet, and nor does the browser.     *)
TradedTokenIsNew ==
    \A w \in Workers : pc[w] = "update" =>
        /\ hand[w].token = Newest(hand[w].token.chain)
        /\ hand[w].token.gen > tab[hand[w].token.chain]
        /\ \A i \in Ids : mem[i] # hand[w].token
        /\ \A u \in Workers : /\ \A i \in Ids : list[u][i] # hand[w].token
                              /\ u # w => hand[u] # hand[w] /\
                                   (hand[u] # NoHand => hand[u].token # hand[w].token)

(* Whenever no save is due or under way, the file has what the list has, so   *)
(* that a restart loses nothing but what was not stored yet (web_pool.rs,     *)
(* save), unless since the last save that began with no other under way one   *)
(* overlapped, failed, or was skipped by a client who left: the next save     *)
(* that runs alone to its end makes good whatever went wrong before it.      *)
QuietFileCurrent ==
    (\A w \in Workers : pc[w] # "read" /\ ~Saving(w)) /\ ~spoilt => Loaded = mem

===============================================================================
