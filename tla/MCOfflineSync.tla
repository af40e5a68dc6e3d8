---------------------------- MODULE MCOfflineSync ----------------------------
(***************************************************************************)
(* Instances of OfflineSync for TLC.  Messages: a call of stelleZu with    *)
(* the set-up of the session and its message, a second tab that replays    *)
(* beside the sending one, two accounts, and a session that ends twice.    *)
(* Entries: a note created, changed and deleted on this device, an event   *)
(* of another device, a tab that loads both lists and re-decrypts them,    *)
(* and two accounts.  Redecrypt: a note created here beside a note of      *)
(* another device.                                                         *)
(***************************************************************************)
EXTENDS OfflineSync, TLC

CONSTANTS t1, t2, a1, a2, n1, n2, e1, d1, create1, change1, delete1, setup1, message1

MessageMutations == {setup1, message1}
EntryMutations == {create1, change1, delete1}

MCKind == [m \in MessageMutations \cup EntryMutations |->
             CASE m = create1 -> "create" [] m = change1 -> "change"
               [] m = delete1 -> "delete" [] OTHER -> "relay"]
MCEntry == [m \in MessageMutations \cup EntryMutations |->
              IF m \in MessageMutations THEN d1 ELSE n1]

MessageTabs == {t1, t2}
EntryTabs == {t1}
TwoAccounts == {a1, a2}
OneNote == {n1}
TwoNotes == {n1, n2}
OneEvent == {e1}
OneCreation == {create1}
None == {}
AccountSymmetry == Permutations(TwoAccounts)
BothPages == {t1} \X {"notes", "events"}
OneSetup == {setup1}
OneCall == <<<<setup1, message1>>>>
NoCalls == <<>>
OneChatTab == [c \in DOMAIN OneCall |-> t1]
=============================================================================
