---------------------------- MODULE WifiApProofs ----------------------------
(***************************************************************************)
(* WifiAp, for any processes, access points, radios and names: as long as  *)
(* no command fails, no process dies and the names asked for are plain, no *)
(* access point is left without a name; a WPS call that reports an error   *)
(* has done nothing, if it heard the replies; and a call that nobody       *)
(* disturbs does what it is for.                                           *)
(*                                                                         *)
(* The argument: what a call has still to run is a rest of its operation's *)
(* commands (Underway), so a command tells the operation and its argument. *)
(* Every command that works keeps the names (NamesKept), and one that      *)
(* changes a WPS session prints OK or is the only one of its operation.    *)
(***************************************************************************)
EXTENDS MCWifiAp, TLAPS

(* What is left of an operation's commands at each of its steps. *)
Rests(o) ==
  CASE o = "create" -> {<<"create", "essid_mode", "txqueuelen">>,
                        <<"essid_mode", "txqueuelen">>, <<"txqueuelen">>}
    [] o = "push" -> {<<"wps_cancel", "wps_pbc">>, <<"wps_pbc">>}
    [] OTHER -> {Commands[o]}

Underway(p) ==
  \/ op[p] = None /\ todo[p] = <<>>
  \/ op[p] \in Op /\ arg[p] \in Args(op[p]) /\ todo[p] \in Rests(op[p])

Vap == [essid : Essid \cup {None}, radio : Radio, up : BOOLEAN]

Types ==
  /\ vap \in [Ap -> Vap \cup {None}]
  /\ DOMAIN op = Proc /\ DOMAIN arg = Proc /\ DOMAIN todo = Proc
  /\ DOMAIN said = Proc /\ DOMAIN ret = Proc

CallInv == Types /\ \A p \in Proc : Underway(p)

(* An action keeps the calls in order, and the names if they are. *)
NamesKept == CallInv' /\ (NamedOrBeingNamed => NamedOrBeingNamed')

USE NoneAssumption

-----------------------------------------------------------------------------
(* The commands.                                                           *)

LEMMA CommandValues ==
  /\ Commands["create"] = <<"create", "essid_mode", "txqueuelen">>
  /\ Commands["push"] = <<"wps_cancel", "wps_pbc">>
  /\ Commands["delete"] = <<"destroy">> /\ Commands["ifUp"] = <<"up">>
  /\ Commands["pushSSID"] = <<"essid">> /\ Commands["pushChannel"] = <<"freq">>
  /\ Commands["pushBridge"] = <<"cfgVlan">> /\ Commands["resetVlan"] = <<"cfgVlan">>
  /\ Commands["apStatus"] = <<"ifconfig">>
  /\ Commands["ssidStatus"] = <<"ifconfig of one">>
  /\ Commands["channel"] = <<"iwlist">> /\ Commands["mac"] = <<"HWaddr">>
  /\ Commands["startHostApd"] = <<"hostapd">>
  /\ Commands["stopHostApd"] = <<"killall">>
  /\ Commands["pin"] = <<"wps_pin">> /\ Commands["cancel"] = <<"wps_cancel">>
  /\ Commands["wpsStatus"] = <<"get_config">>
  /\ Commands["setPower"] = <<"txpower">>
  /\ Commands["getPower"] = <<"iwlist txpower">>
  /\ Commands["bitRate"] = <<"iwconfig">>
  /\ Commands["setFrag"] = <<"frag">> /\ Commands["setRts"] = <<"rts">>
BY DEF Commands, CreateCommands, PushCommands, BridgeCommands

LEMMA OneHead == ASSUME NEW c PROVE Head(<<c>>) = c
OBVIOUS

LEMMA CommandHeads ==
  /\ Head(Commands["delete"]) = "destroy" /\ Head(Commands["ifUp"]) = "up"
  /\ Head(Commands["pushSSID"]) = "essid" /\ Head(Commands["pushChannel"]) = "freq"
  /\ Head(Commands["pushBridge"]) = "cfgVlan" /\ Head(Commands["resetVlan"]) = "cfgVlan"
  /\ Head(Commands["apStatus"]) = "ifconfig"
  /\ Head(Commands["ssidStatus"]) = "ifconfig of one"
  /\ Head(Commands["channel"]) = "iwlist" /\ Head(Commands["mac"]) = "HWaddr"
  /\ Head(Commands["startHostApd"]) = "hostapd"
  /\ Head(Commands["stopHostApd"]) = "killall"
  /\ Head(Commands["pin"]) = "wps_pin" /\ Head(Commands["cancel"]) = "wps_cancel"
  /\ Head(Commands["wpsStatus"]) = "get_config"
  /\ Head(Commands["setPower"]) = "txpower"
  /\ Head(Commands["getPower"]) = "iwlist txpower"
  /\ Head(Commands["bitRate"]) = "iwconfig"
  /\ Head(Commands["setFrag"]) = "frag" /\ Head(Commands["setRts"]) = "rts"
<1>1. /\ Head(Commands["delete"]) = "destroy" /\ Head(Commands["ifUp"]) = "up"
      /\ Head(Commands["pushSSID"]) = "essid" /\ Head(Commands["pushChannel"]) = "freq"
  BY OneHead, CommandValues, Zenon
<1>2. /\ Head(Commands["pushBridge"]) = "cfgVlan" /\ Head(Commands["resetVlan"]) = "cfgVlan"
      /\ Head(Commands["apStatus"]) = "ifconfig" /\ Head(Commands["ssidStatus"]) = "ifconfig of one"
  BY OneHead, CommandValues, Zenon
<1>3. /\ Head(Commands["channel"]) = "iwlist" /\ Head(Commands["mac"]) = "HWaddr"
      /\ Head(Commands["startHostApd"]) = "hostapd" /\ Head(Commands["stopHostApd"]) = "killall"
  BY OneHead, CommandValues, Zenon
<1>4. /\ Head(Commands["pin"]) = "wps_pin" /\ Head(Commands["cancel"]) = "wps_cancel"
      /\ Head(Commands["wpsStatus"]) = "get_config" /\ Head(Commands["setPower"]) = "txpower"
  BY OneHead, CommandValues, Zenon
<1>5. /\ Head(Commands["getPower"]) = "iwlist txpower" /\ Head(Commands["bitRate"]) = "iwconfig"
      /\ Head(Commands["setFrag"]) = "frag" /\ Head(Commands["setRts"]) = "rts"
  BY OneHead, CommandValues, Zenon
<1>. QED BY <1>1, <1>2, <1>3, <1>4, <1>5

Single == {"delete", "ifUp", "pushSSID", "pushChannel", "pushBridge", "resetVlan",
           "apStatus", "ssidStatus", "channel", "mac", "startHostApd", "stopHostApd",
           "pin", "cancel", "wpsStatus", "setPower", "getPower", "bitRate", "setFrag",
           "setRts"}

LEMMA Operations == Op = Single \cup {"create", "push"}
BY DEF Op, Commands, Single

LEMMA SingleRest ==
  ASSUME NEW o \in Single
  PROVE  Rests(o) = {Commands[o]} /\ \E c : Commands[o] = <<c>>
<1>1. Rests(o) = {Commands[o]}
  BY DEF Rests, Single
<1>2. \E c : Commands[o] = <<c>>
  BY CommandValues DEF Single
<1>. QED BY <1>1, <1>2

LEMMA FirstRest == ASSUME NEW o \in Op PROVE Commands[o] \in Rests(o)
<1>1. CASE o = "create"
  BY <1>1, CommandValues DEF Rests
<1>2. CASE o = "push"
  BY <1>2, CommandValues DEF Rests
<1>3. CASE o \in Single
  BY <1>3, SingleRest
<1>. QED BY <1>1, <1>2, <1>3, Operations

(* The command that is next tells the operation.                           *)
LEMMA HeadOfRest ==
  ASSUME NEW o \in Op, NEW s \in Rests(o)
  PROVE  /\ Head(s) = "create" =>
              o = "create" /\ s = <<"create", "essid_mode", "txqueuelen">>
         /\ Head(s) = "essid_mode" => o = "create"
         /\ Head(s) = "essid" => o = "pushSSID"
         /\ Head(s) = "txqueuelen" => o = "create"
         /\ Head(s) = "destroy" => o = "delete"
         /\ Head(s) = "wps_cancel" => o \in {"cancel", "push"}
         /\ Head(s) = "wps_pbc" => o = "push" /\ s = <<"wps_pbc">>
         /\ Head(s) = "wps_pin" => o = "pin"
         /\ Head(s) = "txpower" => o = "setPower"
<1>1. CASE o = "create"
  BY <1>1 DEF Rests
<1>2. CASE o = "push"
  BY <1>2 DEF Rests
<1>3. CASE o \in Single
  <2>1. Head(s) = Head(Commands[o])
    BY <1>3, SingleRest
  <2>2. CASE o \in {"delete", "ifUp", "pushSSID", "pushChannel", "pushBridge"}
    BY <2>1, <2>2, CommandHeads
  <2>3. CASE o \in {"resetVlan", "apStatus", "ssidStatus", "channel", "mac"}
    BY <2>1, <2>3, CommandHeads
  <2>4. CASE o \in {"startHostApd", "stopHostApd", "pin", "cancel", "wpsStatus"}
    BY <2>1, <2>4, CommandHeads
  <2>5. CASE o \in {"setPower", "getPower", "bitRate", "setFrag", "setRts"}
    BY <2>1, <2>5, CommandHeads
  <2>. QED BY <1>3, <2>2, <2>3, <2>4, <2>5 DEF Single
<1>. QED BY <1>1, <1>2, <1>3, Operations

LEMMA NextRest ==
  ASSUME NEW o \in Op, NEW s \in Rests(o)
  PROVE  /\ Tail(s) # s /\ s # <<>>
         /\ Tail(s) # <<>> => Tail(s) \in Rests(o) /\ o \in {"create", "push"}
<1>1. CASE o = "create"
  <2>1. CASE s = <<"create", "essid_mode", "txqueuelen">>
    BY <1>1, <2>1 DEF Rests
  <2>2. CASE s = <<"essid_mode", "txqueuelen">>
    BY <1>1, <2>2 DEF Rests
  <2>3. CASE s = <<"txqueuelen">>
    BY <2>3
  <2>. QED BY <1>1, <2>1, <2>2, <2>3 DEF Rests
<1>2. CASE o = "push"
  <2>1. CASE s = <<"wps_cancel", "wps_pbc">>
    BY <1>2, <2>1 DEF Rests
  <2>2. CASE s = <<"wps_pbc">>
    BY <2>2
  <2>. QED BY <1>2, <2>1, <2>2 DEF Rests
<1>3. CASE o \in Single
  <2>1. PICK c : s = <<c>>
    BY <1>3, SingleRest
  <2>. QED BY <2>1
<1>. QED BY <1>1, <1>2, <1>3, Operations

(* The command a call runs tells the operation and what it was given.      *)
LEMMA Running ==
  ASSUME CallInv, NEW p \in Proc, todo[p] # <<>>
  PROVE  op[p] \in Op /\ arg[p] \in Args(op[p]) /\ todo[p] \in Rests(op[p])
BY DEF CallInv, Underway

LEMMA RunningCreate ==
  ASSUME CallInv, NEW p \in Proc, Runs(p, "create")
  PROVE  /\ op[p] = "create" /\ todo[p] = <<"create", "essid_mode", "txqueuelen">>
         /\ arg[p].ap \in Ap /\ arg[p].radio \in Radio
<1>1. op[p] \in Op /\ arg[p] \in Args(op[p]) /\ todo[p] \in Rests(op[p])
  BY Running DEF Runs
<1>2. op[p] = "create" /\ todo[p] = <<"create", "essid_mode", "txqueuelen">>
  BY <1>1, HeadOfRest DEF Runs
<1>. QED
  BY <1>1, <1>2 DEF Args, Fields

LEMMA RunningEssid ==
  ASSUME CallInv, NEW p \in Proc, Runs(p, "essid_mode") \/ Runs(p, "essid")
  PROVE  /\ arg[p].ap \in Ap /\ arg[p].essid \in Essid
         /\ Runs(p, "essid_mode") => op[p] = "create"
<1>1. op[p] \in Op /\ arg[p] \in Args(op[p]) /\ todo[p] \in Rests(op[p])
  BY Running DEF Runs
<1>2. /\ op[p] \in {"create", "pushSSID"}
      /\ Runs(p, "essid_mode") => op[p] = "create"
  BY <1>1, HeadOfRest DEF Runs
<1>. QED
  BY <1>1, <1>2 DEF Args, Fields

(* After a command the call has the rest to do, or is over.                *)
LEMMA PrintsUnderway ==
  ASSUME CallInv, NEW p \in Proc, NEW text, Prints(p, text), todo[p] # <<>>
  PROVE  /\ \A q \in Proc : Underway(q)'
         /\ DOMAIN op' = Proc /\ DOMAIN arg' = Proc /\ DOMAIN todo' = Proc
         /\ DOMAIN said' = Proc /\ DOMAIN ret' = Proc
         /\ \A q \in Proc \ {p} : op'[q] = op[q] /\ arg'[q] = arg[q]
                  /\ todo'[q] = todo[q]
<1>1. op[p] \in Op /\ arg[p] \in Args(op[p]) /\ todo[p] \in Rests(op[p])
  BY Running
<1>2. /\ DOMAIN op' = Proc /\ DOMAIN arg' = Proc /\ DOMAIN todo' = Proc
      /\ DOMAIN said' = Proc /\ DOMAIN ret' = Proc
  BY DEF Prints, CallInv, Types
<1>3. \A q \in Proc \ {p} : op'[q] = op[q] /\ arg'[q] = arg[q]
         /\ todo'[q] = todo[q]
  BY DEF Prints, CallInv, Types
<1>4. todo'[p] = Tail(todo[p])
  BY DEF Prints, Rest, CallInv, Types
<1>5. ASSUME Tail(todo[p]) = <<>> PROVE Underway(p)'
  BY <1>4, <1>5 DEF Underway, Prints, Rest, CallInv, Types
<1>6. ASSUME Tail(todo[p]) # <<>> PROVE Underway(p)'
  <2>1. op'[p] = op[p] /\ arg'[p] = arg[p]
    BY <1>6 DEF Prints, Rest, CallInv, Types
  <2>2. Tail(todo[p]) \in Rests(op[p])
    BY <1>1, <1>6, NextRest
  <2>. QED
    BY <1>1, <1>4, <2>1, <2>2 DEF Underway
<1>7. Underway(p)'
  BY <1>5, <1>6
<1>8. \A q \in Proc \ {p} : Underway(q)'
  BY <1>3 DEF Underway, CallInv
<1>. QED
  BY <1>2, <1>3, <1>7, <1>8

(* A command other than the one that names a new access point leaves every *)
(* call that is about to run that one where it is.                         *)
LEMMA StillNamed ==
  ASSUME CallInv, NEW p \in Proc, NEW a \in Ap, BeingNamed(a), ~Runs(p, "essid_mode"),
         \A q \in Proc \ {p} : op'[q] = op[q] /\ arg'[q] = arg[q]
                  /\ todo'[q] = todo[q]
  PROVE  BeingNamed(a)'
BY DEF BeingNamed, Runs

LEMMA CreateKeeps == ASSUME CallInv, NEW p \in Proc, Create(p) PROVE NamesKept
<1>1. Runs(p, "create") /\ Prints(p, "") /\ todo[p] # <<>>
  BY DEF Create, Runs
<1>2. /\ op[p] = "create" /\ todo[p] = <<"create", "essid_mode", "txqueuelen">>
      /\ arg[p].ap \in Ap /\ arg[p].radio \in Radio
  BY <1>1, RunningCreate
<1>. PICK a \in Ap : a = arg[p].ap
  BY <1>2
<1>3. Types' /\ \A q \in Proc : Underway(q)'
  BY <1>1, <1>2, PrintsUnderway DEF Create, Types, CallInv, Vap
<1>4. op'[p] = "create" /\ arg'[p].ap = a /\ Runs(p, "essid_mode")'
  <2>1. Rest(p, "") = <<"essid_mode", "txqueuelen">>
    BY <1>2 DEF Rest
  <2>2. todo'[p] = <<"essid_mode", "txqueuelen">>
    BY <1>1, <2>1 DEF Prints, CallInv, Types
  <2>3. op'[p] = op[p] /\ arg'[p] = arg[p]
    <3>1. <<"essid_mode", "txqueuelen">> # <<>>
      OBVIOUS
    <3>2. Rest(p, "") # <<>>
      BY <2>1, <3>1
    <3>. QED
      BY <1>1, <3>2 DEF Prints, CallInv, Types
  <2>. QED
    BY <1>2, <2>2, <2>3 DEF Runs
<1>5. BeingNamed(a)'
  BY <1>4 DEF BeingNamed
<1>6. ASSUME NamedOrBeingNamed, NEW b \in Ap, b # a, Nameless(b)'
      PROVE  BeingNamed(b)'
  <2>1. Nameless(b)
    BY <1>2, <1>6 DEF Create, Nameless, There, CallInv, Types
  <2>2. ~Runs(p, "essid_mode")
    BY <1>1 DEF Runs
  <2>. QED
    BY <1>1, <1>6, <2>1, <2>2, PrintsUnderway, StillNamed DEF NamedOrBeingNamed
<1>. QED
  BY <1>3, <1>5, <1>6 DEF NamesKept, CallInv, NamedOrBeingNamed

(* A name that is asked for becomes a name, or nothing changes.            *)
LEMMA NamesIn ==
  ASSUME NEW old \in Essid \cup {None}, NEW asked \in Essid, NEW verbatim
  PROVE  /\ Names(old, asked, verbatim) \subseteq Essid \cup {None}
         /\ None \in Names(old, asked, verbatim) => old = None
         /\ asked \in verbatim => Names(old, asked, verbatim) = {asked}
BY DEF Names

(* What renaming comes to, for the access point and for the others.        *)
LEMMA RenameIs ==
  ASSUME CallInv, NEW p \in Proc, NEW verbatim, Rename(p, verbatim),
         NEW a \in Ap, a = arg[p].ap, arg[p].essid \in Essid
  PROVE  /\ vap' \in [Ap -> Vap \cup {None}]
         /\ \A b \in Ap \ {a} : vap'[b] = vap[b]
         /\ ~There(a) => vap'[a] = vap[a]
         /\ There(a) =>
              /\ vap'[a] \in Vap
              /\ vap'[a].essid \in Names(vap[a].essid, arg[p].essid, verbatim)
<1>1. CASE There(a)
  <2>1. PICK e \in Names(vap[a].essid, arg[p].essid, verbatim) :
              vap' = [vap EXCEPT ![a] = [vap[a] EXCEPT !.essid = e]]
    BY <1>1 DEF Rename
  <2>2. vap[a] \in Vap
    BY <1>1 DEF There, Types, CallInv
  <2>3. vap[a].essid \in Essid \cup {None}
    BY <2>2 DEF Vap
  <2>4. e \in Essid \cup {None}
    BY <2>1, <2>3, NamesIn, Zenon
  <2>5. [vap[a] EXCEPT !.essid = e] \in Vap /\ [vap[a] EXCEPT !.essid = e].essid = e
    BY <2>2, <2>4 DEF Vap
  <2>. QED BY <1>1, <2>1, <2>5 DEF Types, CallInv
<1>2. CASE ~There(a)
  BY <1>2 DEF Rename, Types, CallInv
<1>. QED BY <1>1, <1>2

LEMMA CreateEssidKeeps ==
  ASSUME CallInv, NEW p \in Proc, CreateEssid(p)
  PROVE  CallInv' /\ (arg[p].essid \in Plain => NamesKept)
<1>1. Runs(p, "essid_mode") /\ Prints(p, "") /\ todo[p] # <<>> /\ Rename(p, Plain)
  BY DEF CreateEssid, Rename, Runs
<1>2. arg[p].ap \in Ap /\ arg[p].essid \in Essid
  BY <1>1, RunningEssid
<1>. PICK a \in Ap : a = arg[p].ap
  BY <1>2
<1>3. Types' /\ \A q \in Proc : Underway(q)'
  BY <1>1, <1>2, RenameIs, PrintsUnderway DEF Types
<1>4. ASSUME arg[p].essid \in Plain PROVE ~Nameless(a)'
  <2>1. CASE There(a)
    <3>1. vap[a].essid \in Essid \cup {None}
      BY <2>1 DEF There, Types, CallInv, Vap
    <3>2. Names(vap[a].essid, arg[p].essid, Plain) = {arg[p].essid}
      BY <1>2, <1>4, <3>1, NamesIn, Zenon
    <3>. QED BY <1>1, <1>2, <2>1, <3>2, RenameIs DEF Nameless
  <2>2. CASE ~There(a)
    BY <1>1, <1>2, <2>2, RenameIs DEF Nameless, There
  <2>. QED BY <2>1, <2>2
<1>5. ASSUME NamedOrBeingNamed, NEW b \in Ap, b # a, Nameless(b)'
      PROVE  BeingNamed(b)'
  <2>1. Nameless(b)
    BY <1>1, <1>2, <1>5, RenameIs DEF Nameless, There
  <2>2. PICK q \in Proc : op[q] = "create" /\ arg[q].ap = b /\ Runs(q, "essid_mode")
    BY <1>5, <2>1 DEF NamedOrBeingNamed, BeingNamed
  <2>3. q # p
    BY <1>5, <2>2
  <2>. QED
    BY <1>1, <2>2, <2>3, PrintsUnderway DEF BeingNamed, Runs
<1>. QED
  BY <1>3, <1>4, <1>5 DEF NamesKept, CallInv, NamedOrBeingNamed

(* Every other command leaves access points without a name as they were.   *)
LEMMA OtherKeeps ==
  ASSUME CallInv, NEW p \in Proc, NEW text, Prints(p, text), todo[p] # <<>>,
         ~Runs(p, "essid_mode"), Types', \A b \in Ap : Nameless(b)' => Nameless(b)
  PROVE  NamesKept
<1>1. ASSUME NamedOrBeingNamed, NEW b \in Ap, Nameless(b)'
      PROVE  BeingNamed(b)'
  BY <1>1, PrintsUnderway, StillNamed DEF NamedOrBeingNamed
<1>. QED
  BY <1>1, PrintsUnderway DEF NamesKept, CallInv, NamedOrBeingNamed

LEMMA SetEssidKeeps ==
  ASSUME CallInv, NEW p \in Proc, SetEssid(p)
  PROVE NamesKept
<1>1. /\ Prints(p, "") /\ todo[p] # <<>> /\ ~Runs(p, "essid_mode")
      /\ Runs(p, "essid") /\ Rename(p, Quotable)
  BY DEF SetEssid, Rename, Runs
<1>2. arg[p].ap \in Ap /\ arg[p].essid \in Essid
  BY <1>1, RunningEssid
<1>. PICK a \in Ap : a = arg[p].ap
  BY <1>2
<1>3. Types'
  BY <1>1, <1>2, RenameIs, PrintsUnderway DEF Types
<1>4. \A b \in Ap \ {a} : Nameless(b)' => Nameless(b)
  BY <1>1, <1>2, RenameIs DEF Nameless, There
<1>5. ASSUME Nameless(a)' PROVE Nameless(a)
  <2>1. There(a)
    BY <1>1, <1>2, <1>5, RenameIs DEF Nameless, There
  <2>2. vap[a].essid \in Essid \cup {None}
    BY <2>1 DEF There, Types, CallInv, Vap
  <2>3. None \in Names(vap[a].essid, arg[p].essid, Quotable)
    BY <1>1, <1>2, <1>5, <2>1, RenameIs DEF Nameless
  <2>4. vap[a].essid = None
    BY <1>2, <2>2, <2>3, NamesIn, Zenon
  <2>. QED BY <2>1, <2>4 DEF Nameless
<1>. QED
  BY <1>1, <1>3, <1>4, <1>5, OtherKeeps

LEMMA DestroyKeeps ==
  ASSUME CallInv, NEW p \in Proc, Destroy(p)
  PROVE NamesKept
<1>1. Prints(p, "") /\ todo[p] # <<>> /\ ~Runs(p, "essid_mode")
  BY DEF Destroy, Runs
<1>2. Types'
  BY <1>1, PrintsUnderway DEF Destroy, Types, CallInv
<1>3. \A b \in Ap : Nameless(b)' => Nameless(b)
  BY DEF Destroy, Nameless, There, Types, CallInv
<1>. QED
  BY <1>1, <1>2, <1>3, OtherKeeps

LEMMA UpKeeps == ASSUME CallInv, NEW p \in Proc, Up(p) PROVE NamesKept
<1>1. Prints(p, "") /\ todo[p] # <<>> /\ ~Runs(p, "essid_mode")
  BY DEF Up, Runs
<1>2. \A b \in Ap : \/ vap'[b] = vap[b]
                    \/ There(b) /\ vap'[b] = [vap[b] EXCEPT !.up = TRUE]
  BY DEF Up, Types, CallInv
<1>3. vap' \in [Ap -> Vap \cup {None}]
  <2>1. vap' = [b \in Ap |-> vap'[b]]
    BY DEF Up, Types, CallInv
  <2>2. \A b \in Ap : vap'[b] \in Vap \cup {None}
    BY <1>2, ZenonT(60) DEF There, Types, CallInv, Vap
  <2>. QED
    BY <2>1, <2>2
<1>4. Types'
  BY <1>1, <1>3, PrintsUnderway DEF Types
<1>5. \A b \in Ap : Nameless(b)' => Nameless(b)
  BY <1>2 DEF Nameless, There, Types, CallInv, Vap
<1>. QED
  BY <1>1, <1>4, <1>5, OtherKeeps

LEMMA QuietKeeps ==
  ASSUME CallInv, NEW p \in Proc, NEW text, Prints(p, text), todo[p] # <<>>,
         ~Runs(p, "essid_mode"), vap' = vap
  PROVE  NamesKept
<1>1. Types'
  BY PrintsUnderway DEF Types, CallInv
<1>2. \A b \in Ap : Nameless(b)' => Nameless(b)
  BY DEF Nameless, There
<1>. QED
  BY <1>1, <1>2, OtherKeeps


(* A creation that asks for a name that is not plain. *)
Odd(p) == todo[p] # <<>> /\ op[p] = "create" /\ arg[p].essid \notin Plain

(* Every command that works keeps the names, if they are plain. *)
LEMMA WorksKeeps ==
  ASSUME CallInv, NEW p \in Proc, Works(p) PROVE CallInv' /\ (~Odd(p) => NamesKept)
<1>1. CASE Txqueuelen(p)
  BY <1>1, QuietKeeps DEF NamesKept, Txqueuelen, Runs, system, air
<1>2. CASE Freq(p) \/ Txpower(p) \/ Frag(p) \/ Rts(p)
  BY <1>2, QuietKeeps DEF NamesKept, Freq, Txpower, Frag, Rts, Runs
<1>3. CASE IwlistTxpower(p) \/ Iwconfig(p)
  BY <1>3, QuietKeeps DEF NamesKept, IwlistTxpower, Iwconfig, Runs, system, air
<1>4. CASE CfgVlan(p)
  <2>1. Runs(p, "cfgVlan") /\ Prints(p, "") /\ vap' = vap
    BY <1>4 DEF CfgVlan
  <2>. QED
    BY <2>1, QuietKeeps DEF NamesKept, Runs
<1>5. CASE Ifconfig(p) \/ IfconfigOfOne(p) \/ Iwlist(p) \/ HWaddr(p)
  BY <1>5, QuietKeeps
     DEF NamesKept, Ifconfig, IfconfigOfOne, Iwlist, HWaddr, Runs, system, air
<1>6. CASE Hostapd(p) \/ Killall(p) \/ WpsCancel(p) \/ GetConfig(p)
  BY <1>6, QuietKeeps
     DEF NamesKept, Hostapd, Killall, WpsCancel, Cancels, GetConfig, Runs, system, air
<1>7. CASE Open(p, "wps_pbc", "pbc") \/ Open(p, "wps_pin", "pin")
  BY <1>7, QuietKeeps DEF NamesKept, Open, Opens, Runs, system, air
<1>8. CASE CreateEssid(p)
  <2>1. Runs(p, "essid_mode")
    BY <1>8 DEF CreateEssid
  <2>2. op[p] = "create" /\ todo[p] # <<>>
    BY <2>1, RunningEssid DEF Runs
  <2>. QED BY <1>8, <2>2, CreateEssidKeeps DEF Odd
<1>. QED
  BY <1>1, <1>2, <1>3, <1>4, <1>5, <1>6, <1>7, <1>8,
     CreateKeeps, SetEssidKeeps, DestroyKeeps, UpKeeps
     DEF Works, NamesKept

LEMMA StepIs ==
  ASSUME NEW p \in Proc
  PROVE  Step(p) <=> Works(p) \/ CommandFails(p) \/ ReplyLost(p)
BY DEF Step, Works

(* A command that fails, a lost reply or a death may leave a name unset,   *)
(* but the calls stay in order.                                            *)
LEMMA FaultKeeps ==
  ASSUME CallInv, NEW p \in Proc, CommandFails(p) \/ ReplyLost(p) \/ Crash(p)
  PROVE  CallInv'
<1>1. CASE CommandFails(p)
  BY <1>1, PrintsUnderway DEF CommandFails, CallInv, Types, system, air
<1>2. CASE Crash(p)
  <2>1. Types'
    BY <1>2 DEF Crash, CallInv, Types, system, air
  <2>2. Underway(p)'
    BY <1>2 DEF Crash, CallInv, Types, Underway
  <2>3. \A q \in Proc \ {p} : Underway(q)'
    BY <1>2 DEF Crash, CallInv, Types, Underway
  <2>. QED BY <2>1, <2>2, <2>3 DEF CallInv
<1>3. CASE ReplyLost(p)
  <2>1. Prints(p, "") /\ todo[p] # <<>> /\ vap' = vap
    BY <1>3 DEF ReplyLost, Cancels, Opens, Runs, air
  <2>. QED BY <2>1, PrintsUnderway DEF CallInv, Types
<1>. QED BY <1>1, <1>2, <1>3

LEMMA CallKeeps ==
  ASSUME CallInv, NEW p \in Proc, NEW o \in Op, NEW x \in Args(o), Call(p, o, x)
  PROVE  NamesKept
<1>1. Types' /\ vap' = vap
  BY DEF Call, CallInv, Types, system, air
<1>2. \A q \in Proc \ {p} : op'[q] = op[q] /\ arg'[q] = arg[q]
         /\ todo'[q] = todo[q]
  BY DEF Call, CallInv, Types
<1>3. Commands[o] \in Rests(o)
  BY FirstRest
<1>4. Underway(p)'
  BY <1>3 DEF Call, Underway, CallInv, Types
<1>5. \A q \in Proc \ {p} : Underway(q)'
  BY <1>2 DEF Underway, CallInv
<1>6. ~Runs(p, "essid_mode")
  BY DEF Call, Runs
<1>7. ASSUME NamedOrBeingNamed, NEW b \in Ap, Nameless(b)' PROVE BeingNamed(b)'
  <2>1. Nameless(b)
    BY <1>1, <1>7 DEF Nameless, There
  <2>. QED
    BY <1>2, <1>6, <1>7, <2>1, StillNamed DEF NamedOrBeingNamed
<1>. QED
  BY <1>1, <1>4, <1>5, <1>7 DEF NamesKept, CallInv, NamedOrBeingNamed

LEMMA EnvironmentKeeps ==
  ASSUME CallInv,
         Exit \/ (\E a \in Ap : SessionEnds(a)) \/ UNCHANGED vars
  PROVE  NamesKept
<1>1. UNCHANGED <<vap, op, arg, todo, said, ret>>
  BY DEF Exit, SessionEnds, vars, system, air
<1>. QED
  BY <1>1 DEF NamesKept, CallInv, Types, Underway, NamedOrBeingNamed, Nameless, There,
              BeingNamed, Runs

LEMMA InitNamed == ASSUME Init PROVE CallInv /\ NamedOrBeingNamed
BY DEF Init, CallInv, Types, Underway, NamedOrBeingNamed, Nameless, There

(* When no command fails, no process dies and all names are plain, every   *)
(* access point has a name or a call that is about to give it one          *)
(* (1688-1695).                                                            *)
THEOREM NamedCorrect ==
  ASSUME Hazard = {}, Essid \subseteq Plain
  PROVE  Spec => []NamedOrBeingNamed
<1>1. Init => CallInv /\ NamedOrBeingNamed
  BY InitNamed
<1>2. ASSUME CallInv, NamedOrBeingNamed, [Next]_vars
      PROVE  CallInv' /\ NamedOrBeingNamed'
  <2>1. NamesKept
    <3>1. \A p \in Proc : ~Crash(p) /\ ~CommandFails(p) /\ ~ReplyLost(p)
      BY DEF Crash, CommandFails, ReplyLost
    <3>2. \A p \in Proc : ~Odd(p)
      BY <1>2, Running DEF Odd, Args, Fields
    <3>. QED
      BY <1>2, <3>1, <3>2, StepIs, WorksKeeps, CallKeeps, EnvironmentKeeps
         DEF Next, NextOf
  <2>. QED BY <1>2, <2>1 DEF NamesKept
<1>. QED
  BY <1>1, <1>2, PTL DEF Spec

-----------------------------------------------------------------------------
(* The behaviours of WifiAp, in which every operation may be called at any *)
(* time, with the history that the properties are about; the instance that *)
(* TLC checks has the behaviours of one topic at a time among these.       *)

watched == <<vars, quiet, acted, opened, heard, faulty>>

WatchedInit ==
  /\ Init
  /\ quiet = [p \in Proc |-> TRUE]
  /\ acted = [p \in Proc |-> FALSE]
  /\ opened = [p \in Proc |-> FALSE]
  /\ heard = [p \in Proc |-> TRUE]
  /\ faulty \in BOOLEAN

WatchedSpec == WatchedInit /\ [][Next /\ Watch]_watched

LEMMA TopicOps == ASSUME NEW t \in DOMAIN Topics PROVE Topics[t] \subseteq Op
BY Operations DEF Topics, Single

LEMMA TopicsAreWatched == MCSpec => WatchedSpec
<1>1. MCInit => WatchedInit /\ topic \in DOMAIN Topics
  BY DEF MCInit, WatchedInit
<1>2. topic \in DOMAIN Topics /\ [MCNext]_<<vars, topic, quiet, acted, opened, heard, faulty>>
        => [Next /\ Watch]_watched /\ (topic \in DOMAIN Topics)'
  <2> SUFFICES ASSUME topic \in DOMAIN Topics,
                      [MCNext]_<<vars, topic, quiet, acted, opened, heard, faulty>>
               PROVE  [Next /\ Watch]_watched /\ (topic \in DOMAIN Topics)'
    OBVIOUS
  <2>1. CASE UNCHANGED <<vars, topic, quiet, acted, opened, heard, faulty>>
    BY <2>1 DEF watched
  <2>2. CASE MCNext
    <3>1. NextOf(Topics[topic]) /\ Watch /\ topic' = topic
      BY <2>2 DEF MCNext, InTopic
    <3>2. \A o \in Topics[topic] : o \in Op
      BY TopicOps
    <3>3. NextOf(Op)
      BY <3>1, <3>2 DEF NextOf
    <3>. QED BY <3>1, <3>3 DEF Next
  <2>. QED BY <2>1, <2>2
<1>. QED BY <1>1, <1>2, PTL DEF MCSpec, WatchedSpec

(* Whatever a call's own step is, it shortens what is left. *)
LEMMA OwnStep ==
  ASSUME CallInv, NEW p \in Proc, Step(p) \/ Crash(p)
  PROVE  Own(p)
<1>1. todo[p] # <<>>
  BY DEF Step, Crash, Runs, Create, CreateEssid, SetEssid, Rename, Txqueuelen, Up,
         Destroy, Freq, Txpower, IwlistTxpower, Iwconfig, Frag, Rts, CfgVlan, Ifconfig,
         IfconfigOfOne, Iwlist, HWaddr, Hostapd, Killall, WpsCancel, Cancels, Open,
         Opens, GetConfig, CommandFails, ReplyLost
<1>2. op[p] \in Op /\ todo[p] \in Rests(op[p])
  BY <1>1, Running
<1>3. CASE Crash(p)
  BY <1>1, <1>3 DEF Crash, Own, CallInv, Types
<1>4. CASE Step(p)
  <2>1. \E text : Prints(p, text)
    BY <1>4 DEF Step, Create, CreateEssid, SetEssid, Rename, Txqueuelen, Up, Destroy,
       Freq, Txpower, IwlistTxpower, Iwconfig, Frag, Rts, CfgVlan, Ifconfig,
       IfconfigOfOne, Iwlist, HWaddr, Hostapd, Killall, WpsCancel, Cancels, Open, Opens,
       GetConfig, CommandFails, ReplyLost
  <2>2. todo'[p] = Tail(todo[p])
    BY <2>1 DEF Prints, Rest, CallInv, Types
  <2>. QED BY <1>1, <1>2, <2>2, NextRest DEF Own
<1>. QED BY <1>3, <1>4

(* As long as nothing has failed, every creation asks for a plain name. *)
PlainInv == ~faulty => \A p \in Proc : ~Odd(p)

LEMMA PlainKept ==
  ASSUME CallInv, PlainInv, Next, Watch
  PROVE  PlainInv'
BY DEF PlainInv, Odd, Watch

(* As long as no command has failed, no reply was lost, no process has     *)
(* died and every access point was to get a plain name, one has no name    *)
(* only while a call is about to give it one (1688-1695), whatever fails   *)
(* afterwards.                                                             *)
THEOREM NamelessHasCreatorCorrect ==
  /\ WatchedSpec => []NamelessHasCreator
  /\ MCSpec => []NamelessHasCreator
<1>1. WatchedInit => CallInv /\ PlainInv /\ NamelessHasCreator
  BY InitNamed DEF WatchedInit, NamelessHasCreator, PlainInv, Odd, Init
<1>2. ASSUME CallInv, PlainInv, NamelessHasCreator, [Next /\ Watch]_watched
      PROVE  CallInv' /\ PlainInv' /\ NamelessHasCreator'
  <2>1. CASE UNCHANGED watched
    BY <1>2, <2>1, EnvironmentKeeps
       DEF watched, vars, NamesKept, NamelessHasCreator, PlainInv, Odd
  <2>2. ASSUME NEW p \in Proc, Step(p) \/ Crash(p), Watch
        PROVE  CallInv' /\ NamelessHasCreator'
    <3>1. CASE Works(p)
      <4>1. ~faulty' => ~faulty /\ ~Odd(p)
        BY <1>2, <2>2 DEF Watch, PlainInv
      <4>. QED BY <1>2, <3>1, <4>1, WorksKeeps DEF NamesKept, NamelessHasCreator
    <3>2. CASE ~Works(p)
      <4>1. Lost(p)
        BY <1>2, <2>2, <3>2, OwnStep DEF Lost
      <4>2. faulty'
        BY <2>2, <4>1 DEF Watch
      <4>. QED BY <1>2, <2>2, <3>2, <4>2, StepIs, FaultKeeps DEF NamelessHasCreator
    <3>. QED BY <3>1, <3>2
  <2>3. ASSUME Watch, NamesKept PROVE CallInv' /\ NamelessHasCreator'
    BY <1>2, <2>3 DEF NamesKept, NamelessHasCreator, Watch
  <2>4. CASE Next /\ Watch
    <3>1. CallInv' /\ NamelessHasCreator'
      BY <1>2, <2>4, <2>2, <2>3, CallKeeps, EnvironmentKeeps DEF Next, NextOf
    <3>. QED BY <1>2, <2>4, <3>1, PlainKept
  <2>. QED BY <1>2, <2>1, <2>4
<1>. QED BY <1>1, <1>2, TopicsAreWatched, PTL DEF WatchedSpec

-----------------------------------------------------------------------------
(* WPS sessions.                                                           *)

(* hostapd keeps sessions of access points it serves only. *)
SessionInv ==
  /\ session \in [Ap -> {"none", "pbc", "pin"}]
  /\ \A a \in Ap : session[a] # "none" => Serves(a)

(* Only a push has a command left after one that touched a session, and    *)
(* has heard an OK to it unless that was lost; no command but a call's     *)
(* last opens one.                                                         *)
ActedInv ==
  \A p \in Proc :
    /\ acted[p] => op[p] = "push" /\ todo[p] # <<>>
                     /\ (heard[p] => "OK" \in said[p])
    /\ ~opened[p]

(* What a step of p is, and what it leaves of the other calls. *)
LEMMA StepPrints ==
  ASSUME CallInv, NEW p \in Proc, Step(p)
  PROVE  /\ \E text : Prints(p, text)
         /\ todo[p] # <<>> /\ op[p] \in Op /\ arg[p] \in Args(op[p])
         /\ todo[p] \in Rests(op[p])
         /\ \A q \in Proc \ {p} : /\ op'[q] = op[q] /\ arg'[q] = arg[q]
                                  /\ todo'[q] = todo[q] /\ said'[q] = said[q]
                                  /\ ret'[q] = ret[q]
<1>1. \E text : Prints(p, text)
  BY DEF Step, Create, CreateEssid, SetEssid, Rename, Txqueuelen, Up, Destroy, Freq,
     Txpower, IwlistTxpower, Iwconfig, Frag, Rts, CfgVlan, Ifconfig, IfconfigOfOne,
     Iwlist, HWaddr, Hostapd, Killall, WpsCancel, Cancels, Open, Opens, GetConfig,
     CommandFails, ReplyLost
<1>2. todo[p] # <<>>
  BY OwnStep DEF Own
<1>. QED BY <1>1, <1>2, Running DEF Prints, CallInv, Types

(* What a command that prints text makes of its own call. *)
LEMMA PrintsOwn ==
  ASSUME CallInv, NEW p \in Proc, NEW text, Prints(p, text)
  PROVE  /\ todo'[p] = Tail(todo[p])
         /\ Tail(todo[p]) # <<>> =>
              /\ said'[p] = said[p] \cup {text} /\ op'[p] = op[p]
              /\ arg'[p] = arg[p] /\ ret'[p] = ret[p]
         /\ Tail(todo[p]) = <<>> =>
              ret'[p] = Answer(op[p], text, said[p] \cup {text})
BY DEF Prints, Rest, CallInv, Types

(* What the commands that change a session tell of their call.             *)
LEMMA CancelsIs ==
  ASSUME CallInv, SessionInv, NEW p \in Proc, NEW ok, Cancels(p, ok), session' # session
  PROVE  op[p] \in {"cancel", "push"} /\ Prints(p, ok) /\ session'[arg[p].ap] # "pbc"
<1>0. Runs(p, "wps_cancel") /\ todo[p] # <<>>
  BY DEF Cancels, Runs
<1>1. PICK a : a = arg[p].ap
  OBVIOUS
<1>2. session' = [session EXCEPT ![a] = "none"]
  BY <1>1 DEF Cancels
<1>3. a \in Ap /\ session[a] # "none"
  BY <1>2 DEF SessionInv
<1>4. Prints(p, ok)
  BY <1>1, <1>3 DEF Cancels, SessionInv
<1>5. session'[a] # "pbc"
  BY <1>2, <1>3 DEF SessionInv
<1>6. op[p] \in {"cancel", "push"}
  BY <1>0, Running, HeadOfRest DEF Runs
<1>. QED BY <1>1, <1>4, <1>5, <1>6

LEMMA OpensIs ==
  ASSUME CallInv, NEW p \in Proc, NEW ok,
         Opens(p, "wps_pbc", "pbc", ok) \/ Opens(p, "wps_pin", "pin", ok)
  PROVE  op[p] \in {"push", "pin"} /\ Prints(p, ok) /\ Tail(todo[p]) = <<>>
<1>0. Prints(p, ok) /\ todo[p] # <<>>
  BY DEF Opens, Runs
<1>1. op[p] \in Op /\ todo[p] \in Rests(op[p])
  BY <1>0, Running
<1>2. CASE Runs(p, "wps_pbc")
  <2>1. op[p] = "push" /\ todo[p] = <<"wps_pbc">>
    BY <1>1, <1>2, HeadOfRest DEF Runs
  <2>2. Tail(<<"wps_pbc">>) = <<>>
    OBVIOUS
  <2>. QED BY <1>0, <2>1, <2>2
<1>3. CASE Runs(p, "wps_pin")
  <2>1. op[p] = "pin"
    BY <1>1, <1>3, HeadOfRest DEF Runs
  <2>. QED BY <1>0, <1>1, <2>1, NextRest
<1>. QED BY <1>2, <1>3 DEF Opens

(* A step that changes a session is the one command of a deletion, or      *)
(* hostapd has answered OK, or that answer was lost.                       *)
LEMMA SessionStep ==
  ASSUME CallInv, SessionInv, NEW p \in Proc, Step(p), session' # session
  PROVE  \/ op[p] = "delete"
         \/ /\ op[p] \in {"cancel", "push", "pin"}
            /\ Prints(p, "OK") \/ Unheard(p)
            /\ session'[arg[p].ap] = "pbc" => Tail(todo[p]) = <<>>
<1>0. op[p] \in Op /\ todo[p] \in Rests(op[p]) /\ todo[p] # <<>>
  BY StepPrints
<1>1. CASE Destroy(p)
  BY <1>0, <1>1, HeadOfRest DEF Destroy, Runs
<1>2. CASE WpsCancel(p)
  BY <1>2, CancelsIs DEF WpsCancel
<1>3. CASE Opens(p, "wps_pbc", "pbc", "OK") \/ Opens(p, "wps_pin", "pin", "OK")
  BY <1>3, OpensIs
<1>4. CASE ~Works(p)
  <2>1. Unheard(p)
    BY <1>4, OwnStep DEF Unheard, Lost
  <2>2. ReplyLost(p)
    BY <1>4, StepIs DEF CommandFails, system, daemon
  <2>. QED BY <2>1, <2>2, CancelsIs, OpensIs DEF ReplyLost
<1>5. CASE Works(p) /\ ~(Destroy(p) \/ WpsCancel(p) \/ Opens(p, "wps_pbc", "pbc", "OK")
             \/ Opens(p, "wps_pin", "pin", "OK"))
  BY <1>5 DEF Works, Create, CreateEssid, SetEssid, Rename, Txqueuelen, Up, Freq,
     Txpower, IwlistTxpower, Iwconfig, Frag, Rts, CfgVlan, Ifconfig, IfconfigOfOne,
     Iwlist, HWaddr, Hostapd, Killall, Open, GetConfig, system, daemon
<1>. QED BY <1>1, <1>2, <1>3, <1>4, <1>5

LEMMA SessionKept ==
  ASSUME CallInv, SessionInv, Next \/ UNCHANGED vars
  PROVE  SessionInv'
<1>1. CASE UNCHANGED <<session, served, hostapd>>
  BY <1>1 DEF SessionInv, Serves
<1>2. ASSUME NEW p \in Proc, Destroy(p) PROVE SessionInv'
  BY <1>2 DEF SessionInv, Serves, Destroy
<1>3. ASSUME NEW p \in Proc, Hostapd(p) PROVE SessionInv'
  BY <1>3 DEF SessionInv, Serves, Hostapd
<1>4. ASSUME NEW p \in Proc, Killall(p) PROVE SessionInv'
  BY <1>4 DEF SessionInv, Serves, Killall
<1>5. ASSUME NEW p \in Proc, NEW ok, Cancels(p, ok) PROVE SessionInv'
  BY <1>5 DEF SessionInv, Serves, Cancels
<1>6. ASSUME NEW p \in Proc, NEW ok,
             Opens(p, "wps_pbc", "pbc", ok) \/ Opens(p, "wps_pin", "pin", ok)
      PROVE  SessionInv'
  BY <1>6 DEF SessionInv, Serves, Opens
<1>7. CASE Exit \/ \E a \in Ap : SessionEnds(a)
  BY <1>7 DEF SessionInv, Serves, Exit, SessionEnds
<1>8. ASSUME NEW p \in Proc, Step(p) PROVE SessionInv'
  <2>1. CASE ~(Destroy(p) \/ Hostapd(p) \/ Killall(p) \/ WpsCancel(p) \/ ReplyLost(p)
               \/ Opens(p, "wps_pbc", "pbc", "OK") \/ Opens(p, "wps_pin", "pin", "OK"))
    BY <1>1, <1>8, <2>1 DEF Step, Create, CreateEssid, SetEssid, Rename, Txqueuelen, Up,
       Freq, Txpower, IwlistTxpower, Iwconfig, Frag, Rts, CfgVlan, Ifconfig,
       IfconfigOfOne, Iwlist, HWaddr, Open, GetConfig, CommandFails, system, daemon
  <2>2. CASE WpsCancel(p) \/ ReplyLost(p)
    BY <1>5, <1>6, <2>2 DEF WpsCancel, ReplyLost
  <2>. QED BY <1>2, <1>3, <1>4, <1>6, <2>1, <2>2
<1>9. ASSUME NEW p \in Proc,
             Crash(p) \/ \E o \in Op : \E x \in Args(o) : Call(p, o, x)
      PROVE  SessionInv'
  BY <1>1, <1>9 DEF Crash, Call, system, daemon
<1>. QED BY <1>1, <1>7, <1>8, <1>9 DEF Next, NextOf, vars, system, daemon

(* Who shortens what is left of a call: the call itself, or its death. *)
LEMMA OwnIs ==
  ASSUME CallInv, Next, NEW p \in Proc
  PROVE  \/ Step(p) \/ (Crash(p) /\ session' = session)
         \/ /\ \E o \in Op : \E x \in Args(o) : Call(p, o, x)
            /\ todo[p] = <<>>
         \/ /\ op'[p] = op[p] /\ arg'[p] = arg[p] /\ todo'[p] = todo[p]
            /\ said'[p] = said[p] /\ ret'[p] = ret[p]
<1>1. ASSUME NEW q \in Proc, q # p, Step(q)
      PROVE  /\ op'[p] = op[p] /\ arg'[p] = arg[p] /\ todo'[p] = todo[p]
             /\ said'[p] = said[p] /\ ret'[p] = ret[p]
  BY <1>1, StepPrints
<1>2. ASSUME NEW q \in Proc, q # p, Crash(q)
      PROVE  /\ op'[p] = op[p] /\ arg'[p] = arg[p] /\ todo'[p] = todo[p]
             /\ said'[p] = said[p] /\ ret'[p] = ret[p]
  BY <1>2 DEF Crash, CallInv, Types
<1>3. ASSUME NEW q \in Proc, q # p, NEW o \in Op, NEW x \in Args(o), Call(q, o, x)
      PROVE  /\ op'[p] = op[p] /\ arg'[p] = arg[p] /\ todo'[p] = todo[p]
             /\ said'[p] = said[p] /\ ret'[p] = ret[p]
  BY <1>3 DEF Call, CallInv, Types
<1>4. ASSUME NEW o \in Op, NEW x \in Args(o), Call(p, o, x)
      PROVE  todo[p] = <<>>
  BY <1>4 DEF Call
<1>5. ASSUME Crash(p) PROVE session' = session
  BY <1>5 DEF Crash, system, daemon
<1>6. ASSUME Exit \/ \E a \in Ap : SessionEnds(a)
      PROVE  UNCHANGED <<op, arg, todo, said, ret>>
  BY <1>6 DEF Exit, SessionEnds
<1>. QED BY <1>1, <1>2, <1>3, <1>4, <1>5, <1>6 DEF Next, NextOf

LEMMA ActedKept ==
  ASSUME CallInv, SessionInv, ActedInv, Next, Watch
  PROVE  ActedInv'
<1> SUFFICES ASSUME NEW p \in Proc, acted'[p] \/ opened'[p]
             PROVE  /\ op'[p] = "push" /\ todo'[p] # <<>>
                    /\ heard'[p] => "OK" \in said'[p]
                    /\ ~opened'[p]
  BY DEF ActedInv
<1>1. /\ todo'[p] # <<>>
      /\ acted[p] \/ (Own(p) /\ session' # session)
      /\ opened'[p] => Own(p) /\ session' # session /\ session'[arg[p].ap] = "pbc"
      /\ heard'[p] => heard[p] /\ ~Unheard(p)
  BY DEF Watch, ActedInv
<1>2. acted[p] => op[p] = "push" /\ todo[p] # <<>> /\ (heard[p] => "OK" \in said[p])
  BY DEF ActedInv
<1>3. todo[p] # <<>>
  BY <1>1, <1>2 DEF Own
<1>4. CASE Step(p)
  <2>1. /\ todo[p] \in Rests(op[p]) /\ op[p] \in Op
    BY <1>4, StepPrints
  <2>2. PICK text : Prints(p, text)
    BY <1>4, StepPrints
  <2>3. Tail(todo[p]) # <<>> /\ op[p] \in {"create", "push"}
    BY <1>1, <2>1, <2>2, NextRest, PrintsOwn
  <2>4. CASE session' # session
    <3>1. /\ op[p] = "push" /\ session'[arg[p].ap] # "pbc"
          /\ Prints(p, "OK") \/ Unheard(p)
      BY <1>4, <2>3, <2>4, SessionStep
    <3>2. op'[p] = op[p]
      BY <2>2, <2>3, PrintsOwn
    <3>3. ASSUME heard'[p] PROVE "OK" \in said'[p]
      <4>1. Prints(p, "OK")
        BY <1>1, <3>1, <3>3
      <4>2. said'[p] = said[p] \cup {"OK"}
        BY <2>3, <4>1, PrintsOwn, Zenon
      <4>. QED BY <4>2
    <3>. QED BY <1>1, <3>1, <3>2, <3>3
  <2>5. CASE session' = session
    <3>1. op[p] = "push" /\ (heard[p] => "OK" \in said[p])
      BY <1>1, <1>2, <2>5
    <3>2. op'[p] = op[p] /\ said[p] \subseteq said'[p]
      BY <2>2, <2>3, <3>1, PrintsOwn
    <3>. QED BY <1>1, <2>5, <3>1, <3>2
  <2>. QED BY <2>4, <2>5
<1>5. CASE Crash(p)
  BY <1>1, <1>5 DEF Crash, CallInv, Types
<1>6. CASE op'[p] = op[p] /\ todo'[p] = todo[p] /\ said'[p] = said[p]
  BY <1>1, <1>2, <1>6 DEF Own
<1>. QED BY <1>3, <1>4, <1>5, <1>6, OwnIs

WatchedInv == CallInv /\ SessionInv /\ ActedInv

LEMMA WatchedInvCorrect == WatchedSpec => []WatchedInv
<1>1. WatchedInit => WatchedInv
  <2>1. ASSUME WatchedInit PROVE SessionInv
    <3>1. session = [a \in Ap |-> "none"]
      BY <2>1 DEF WatchedInit, Init
    <3>. QED BY ONLY <3>1 DEF SessionInv
  <2>2. WatchedInit => ActedInv
    BY DEF WatchedInit, ActedInv
  <2>. QED BY <2>1, <2>2, InitNamed DEF WatchedInit, WatchedInv
<1>2. ASSUME WatchedInv, [Next /\ Watch]_watched PROVE WatchedInv'
  <2>1. CASE UNCHANGED watched
    BY <1>2, <2>1, EnvironmentKeeps, SessionKept
       DEF watched, vars, WatchedInv, NamesKept, ActedInv
  <2>2. CASE Next /\ Watch
    <3>1. CallInv'
      BY <1>2, <2>2, StepIs, WorksKeeps, FaultKeeps, CallKeeps, EnvironmentKeeps
         DEF Next, NextOf, NamesKept, WatchedInv
    <3>. QED BY <1>2, <2>2, <3>1, SessionKept, ActedKept DEF WatchedInv
  <2>. QED BY <1>2, <2>1, <2>2
<1>. QED BY <1>1, <1>2, PTL DEF WatchedSpec

(* A call that ends has run its last command. *)
LEMMA EndsIs ==
  ASSUME CallInv, Next, NEW p \in Proc, Ends(p)
  PROVE  /\ Step(p) /\ Tail(todo[p]) = <<>>
         /\ \A text : Prints(p, text) =>
              ret'[p] = Answer(op[p], text, said[p] \cup {text})
<1>1. Step(p)
  BY OwnIs DEF Ends, Own, Crash, CallInv, Types
<1>2. PICK text : Prints(p, text)
  BY <1>1, StepPrints
<1>3. Tail(todo[p]) = <<>>
  BY <1>2, PrintsOwn DEF Ends
<1>. QED BY <1>1, <1>3, PrintsOwn

(* A WPS call that returns RETURN_ERR has neither opened nor cancelled a   *)
(* session (2549-2613), unless the reply to a command of its own that did  *)
(* so was lost: an OK to one of its commands is enough for it to return    *)
(* RETURN_OK, and hostapd answers OK whenever there is a session.          *)
THEOREM ErrDidNothingCorrect ==
  /\ WatchedSpec => ErrDidNothing
  /\ MCSpec => ErrDidNothing
<1> DEFINE A == \A p \in Proc :
                  Ends(p) /\ ret'[p] = "ERR" /\ heard[p] /\ ~Unheard(p) =>
                    ~acted[p] /\ session' = session
<1>1. ASSUME WatchedInv, Next, NEW p \in Proc, Ends(p), ret'[p] = "ERR",
             heard[p], ~Unheard(p)
      PROVE  ~acted[p] /\ session' = session
  <2>1. /\ Step(p) /\ CallInv /\ SessionInv
        /\ \A text : Prints(p, text) =>
             ret'[p] = Answer(op[p], text, said[p] \cup {text})
    BY <1>1, EndsIs DEF WatchedInv
  <2>2. ASSUME acted[p] PROVE FALSE
    <3>1. op[p] = "push" /\ "OK" \in said[p]
      BY <1>1, <2>2 DEF WatchedInv, ActedInv
    <3>2. PICK text : Prints(p, text)
      BY <2>1, StepPrints
    <3>3. ret'[p] = "OK"
      BY <2>1, <3>1, <3>2 DEF Answer, Replied
    <3>. QED BY <1>1, <3>3
  <2>3. ASSUME session' # session PROVE FALSE
    <3>1. CASE op[p] = "delete"
      <4>1. PICK text : Prints(p, text)
        BY <2>1, StepPrints
      <4>2. ret'[p] = "OK"
        BY <2>1, <3>1, <4>1 DEF Answer
      <4>. QED BY <1>1, <4>2
    <3>2. CASE op[p] \in {"cancel", "push", "pin"} /\ Prints(p, "OK")
      <4>1. ret'[p] = "OK"
        BY <2>1, <3>2 DEF Answer, Replied
      <4>. QED BY <1>1, <4>1
    <3>. QED BY <1>1, <2>1, <2>3, <3>1, <3>2, SessionStep
  <2>. QED BY <2>2, <2>3
<1>2. WatchedInv /\ [Next /\ Watch]_watched => [A]_vars
  BY <1>1 DEF watched
<1>. QED BY <1>2, WatchedInvCorrect, TopicsAreWatched, PTL DEF WatchedSpec, ErrDidNothing

-----------------------------------------------------------------------------
(* What undisturbed calls do.                                              *)

(* A creation that nobody disturbs has its access point after its first    *)
(* command and the name, if it is plain, after its second.                 *)
QuietOf(p) ==
  quiet[p] /\ op[p] = "create" =>
    /\ todo[p] = <<"essid_mode", "txqueuelen">> => There(arg[p].ap)
    /\ todo[p] = <<"txqueuelen">> =>
         /\ There(arg[p].ap)
         /\ arg[p].essid \in Plain => vap[arg[p].ap].essid = arg[p].essid

QuietInv ==
  /\ power \in [Radio -> Level] /\ hostapd \in {"off", "on", "dying"}
  /\ \A p \in Proc : QuietOf(p)

LEMMA RunningTxpower ==
  ASSUME CallInv, NEW p \in Proc, Runs(p, "txpower")
  PROVE  arg[p].level \in Level
<1>1. op[p] \in Op /\ arg[p] \in Args(op[p]) /\ todo[p] \in Rests(op[p])
  BY Running DEF Runs
<1>2. op[p] = "setPower"
  BY <1>1, HeadOfRest DEF Runs
<1>. QED BY <1>1, <1>2 DEF Args, Fields

LEMMA PowerKept ==
  ASSUME CallInv, power \in [Radio -> Level], Next \/ UNCHANGED vars
  PROVE  power' \in [Radio -> Level]
<1>1. ASSUME NEW p \in Proc, Txpower(p) PROVE power' \in [Radio -> Level]
  <2>1. arg[p].level \in Level
    BY <1>1, RunningTxpower DEF Txpower
  <2>. QED BY <1>1, <2>1 DEF Txpower, RadioSet
<1>2. ASSUME NEW p \in Proc, Step(p), ~Txpower(p) PROVE power' = power
  BY <1>2 DEF Step, Create, CreateEssid, SetEssid, Rename, Txqueuelen, Up, Destroy,
     Freq, IwlistTxpower, Iwconfig, Frag, Rts, CfgVlan, Ifconfig, IfconfigOfOne, Iwlist,
     HWaddr, Hostapd, Killall, WpsCancel, Cancels, Open, Opens, GetConfig, CommandFails,
     ReplyLost, system, air, tuning
<1>3. ASSUME NEW p \in Proc,
             Crash(p) \/ \E o \in Op : \E x \in Args(o) : Call(p, o, x)
      PROVE  power' = power
  BY <1>3 DEF Crash, Call, system, air, tuning
<1>4. CASE Exit \/ (\E a \in Ap : SessionEnds(a)) \/ UNCHANGED vars
  BY <1>4 DEF Exit, SessionEnds, vars, system, air, tuning
<1>. QED BY <1>1, <1>2, <1>3, <1>4 DEF Next, NextOf

LEMMA HostapdKept ==
  ASSUME hostapd \in {"off", "on", "dying"}, Next \/ UNCHANGED vars
  PROVE  hostapd' \in {"off", "on", "dying"}
<1>1. ASSUME NEW p \in Proc, Hostapd(p) \/ Killall(p)
      PROVE  hostapd' \in {"off", "on", "dying"}
  BY <1>1 DEF Hostapd, Killall
<1>2. ASSUME NEW p \in Proc, Step(p), ~Hostapd(p), ~Killall(p)
      PROVE  hostapd' = hostapd
  BY <1>2 DEF Step, Create, CreateEssid, SetEssid, Rename, Txqueuelen, Up, Destroy,
     Freq, Txpower, IwlistTxpower, Iwconfig, Frag, Rts, CfgVlan, Ifconfig,
     IfconfigOfOne, Iwlist, HWaddr, WpsCancel, Cancels, Open, Opens, GetConfig,
     CommandFails, ReplyLost, system, daemon
<1>3. ASSUME NEW p \in Proc,
             Crash(p) \/ \E o \in Op : \E x \in Args(o) : Call(p, o, x)
      PROVE  hostapd' = hostapd
  BY <1>3 DEF Crash, Call, system, daemon
<1>4. CASE Exit \/ (\E a \in Ap : SessionEnds(a)) \/ UNCHANGED vars
  BY <1>4 DEF Exit, SessionEnds, vars, system, daemon
<1>. QED BY <1>1, <1>2, <1>3, <1>4 DEF Next, NextOf

LEMMA NewIsSome ==
  /\ None \notin Vap
  /\ \A r \in Radio : [essid |-> None, radio |-> r, up |-> FALSE] # None
<1>1. None \notin Vap
  BY VapAssumption DEF Vap
<1>2. \A r \in Radio : [essid |-> None, radio |-> r, up |-> FALSE] \in Vap
  BY DEF Vap
<1>. QED BY <1>1, <1>2

LEMMA Heads ==
  /\ Head(<<"create", "essid_mode", "txqueuelen">>) = "create"
  /\ Head(<<"essid_mode", "txqueuelen">>) = "essid_mode"
  /\ Head(<<"txqueuelen">>) = "txqueuelen"
OBVIOUS

(* The command that a call runs, of those a promise is about.              *)
LEMMA WorksAs ==
  ASSUME CallInv, NEW p \in Proc, Works(p)
  PROVE  /\ todo[p] = <<"create", "essid_mode", "txqueuelen">> => Create(p)
         /\ todo[p] = <<"essid_mode", "txqueuelen">> => CreateEssid(p)
         /\ todo[p] = <<"txqueuelen">> => Txqueuelen(p)
         /\ todo[p] = <<"iwlist txpower">> => IwlistTxpower(p)
         /\ todo[p] = <<"wps_pbc">> => Open(p, "wps_pbc", "pbc")
         /\ todo[p] = <<"ifconfig">> => Ifconfig(p)
         /\ todo[p] = <<"hostapd">> => Hostapd(p)
<1> USE DEF Works, Create, CreateEssid, SetEssid, Rename, Txqueuelen, Up, Destroy, Freq,
        Txpower, IwlistTxpower, Iwconfig, Frag, Rts, CfgVlan, Ifconfig, IfconfigOfOne,
        Iwlist, HWaddr, Hostapd, Killall, WpsCancel, Cancels, Open, Opens, GetConfig,
        Runs
<1>1. ASSUME Head(todo[p]) = "create" PROVE Create(p)
  BY <1>1
<1>2. ASSUME Head(todo[p]) = "essid_mode" PROVE CreateEssid(p)
  BY <1>2
<1>3. ASSUME Head(todo[p]) = "txqueuelen" PROVE Txqueuelen(p)
  BY <1>3
<1>4. ASSUME Head(todo[p]) = "iwlist txpower" PROVE IwlistTxpower(p)
  BY <1>4
<1>5. ASSUME Head(todo[p]) = "wps_pbc" PROVE Open(p, "wps_pbc", "pbc")
  BY <1>5
<1>6. ASSUME Head(todo[p]) = "ifconfig" PROVE Ifconfig(p)
  BY <1>6
<1>7. ASSUME Head(todo[p]) = "hostapd" PROVE Hostapd(p)
  BY <1>7
<1>. QED
  <2>2. /\ Head(<<"iwlist txpower">>) = "iwlist txpower"
        /\ Head(<<"wps_pbc">>) = "wps_pbc"
        /\ Head(<<"ifconfig">>) = "ifconfig" /\ Head(<<"hostapd">>) = "hostapd"
    BY OneHead, Zenon
  <2>. QED BY ONLY <1>1, <1>2, <1>3, <1>4, <1>5, <1>6, <1>7, Heads, <2>2, Zenon

LEMMA QuietKept ==
  ASSUME CallInv, QuietInv, Next, Watch, NEW p \in Proc
  PROVE  QuietOf(p)'
<1> SUFFICES ASSUME quiet'[p], op'[p] = "create",
                    todo'[p] \in {<<"essid_mode", "txqueuelen">>, <<"txqueuelen">>}
             PROVE  /\ There(arg[p].ap)' /\ arg'[p] = arg[p]
                    /\ todo'[p] = <<"txqueuelen">> /\ arg[p].essid \in Plain =>
                         vap'[arg[p].ap].essid = arg[p].essid
  BY DEF QuietOf, There
<1>1. todo'[p] # <<>> /\ todo'[p] # <<"create", "essid_mode", "txqueuelen">>
  OBVIOUS
<1>2. todo[p] # <<>>
  <2>1. ASSUME NEW o \in Op, NEW x \in Args(o), Call(p, o, x) PROVE FALSE
    <3>1. o = "create" /\ todo'[p] = Commands["create"]
      BY <2>1 DEF Call, CallInv, Types
    <3>. QED BY <1>1, <3>1, CommandValues
  <2>2. ASSUME todo'[p] = todo[p] PROVE todo[p] # <<>>
    BY <1>1, <2>2
  <2>. QED BY <2>1, <2>2, OwnIs, OwnStep DEF Own
<1>3. CASE Step(p)
  <2>1. PICK text : Prints(p, text)
    BY <1>3, StepPrints
  <2>2. todo'[p] = Tail(todo[p]) /\ op[p] = "create" /\ arg'[p] = arg[p]
    BY <1>1, <2>1, PrintsOwn
  <2>3. quiet[p] /\ ~Lost(p)
    BY <1>1, <1>2, <2>2 DEF Watch, Promising
  <2>4. Works(p) /\ todo[p] \in Rests("create")
    BY <1>3, <2>2, <2>3, OwnStep, StepPrints DEF Lost
  <2>5. /\ Tail(<<"create", "essid_mode", "txqueuelen">>) = <<"essid_mode", "txqueuelen">>
        /\ Tail(<<"essid_mode", "txqueuelen">>) = <<"txqueuelen">>
        /\ Tail(<<"txqueuelen">>) = <<>>
    OBVIOUS
  <2>6. CASE todo[p] = <<"create", "essid_mode", "txqueuelen">>
    <3>1. Create(p)
      BY <2>4, <2>6, WorksAs
    <3>2. arg[p].ap \in Ap /\ arg[p].radio \in Radio
      BY <3>1, RunningCreate DEF Create
    <3>3. There(arg[p].ap)'
      <4>1. [essid |-> None, radio |-> arg[p].radio, up |-> FALSE] # None
        BY <3>2, NewIsSome
      <4>. QED BY <2>2, <3>1, <3>2, <4>1 DEF Create, There, CallInv, Types
    <3>. QED BY <2>2, <2>5, <2>6, <3>3
  <2>7. CASE todo[p] = <<"essid_mode", "txqueuelen">>
    <3>1. Runs(p, "essid_mode") /\ Rename(p, Plain)
      BY <2>4, <2>7, WorksAs DEF CreateEssid
    <3>2. There(arg[p].ap)
      BY <2>2, <2>3, <2>7 DEF QuietInv, QuietOf
    <3>3. arg[p].ap \in Ap /\ arg[p].essid \in Essid
      BY <3>1, RunningEssid
    <3>4. PICK a \in Ap : a = arg[p].ap
      BY <3>3
    <3>5. vap'[a] \in Vap /\ vap'[a].essid \in Names(vap[a].essid, arg[p].essid, Plain)
      BY <3>1, <3>2, <3>3, <3>4, RenameIs
    <3>6. vap[a].essid \in Essid \cup {None}
      BY <3>2, <3>4 DEF There, CallInv, Types, Vap
    <3>7. ASSUME arg[p].essid \in Plain PROVE vap'[a].essid = arg[p].essid
      <4>1. Names(vap[a].essid, arg[p].essid, Plain) = {arg[p].essid}
        BY <3>3, <3>6, <3>7, NamesIn, ZenonT(60)
      <4>. QED BY <3>5, <4>1
    <3>8. vap'[a] # None
      BY <3>5, NewIsSome
    <3>. QED BY <2>2, <3>4, <3>7, <3>8 DEF There
  <2>8. CASE todo[p] = <<"txqueuelen">>
    BY <1>1, <2>2, <2>5, <2>8
  <2>. QED BY <2>4, <2>6, <2>7, <2>8 DEF Rests
<1>4. CASE Crash(p)
  BY <1>1, <1>4 DEF Crash, CallInv, Types
<1>5. CASE op'[p] = op[p] /\ arg'[p] = arg[p] /\ todo'[p] = todo[p]
  <2>1. quiet[p] /\ UNCHANGED system
    BY <1>2, <1>5 DEF Watch, Promising, Own
  <2>. QED BY <1>5, <2>1 DEF QuietInv, QuietOf, There, system, air
<1>. QED BY <1>2, <1>3, <1>4, <1>5, OwnIs

LEMMA QuietInvCorrect == WatchedSpec => []QuietInv
<1>1. WatchedInit => QuietInv
  <2>1. <<>> # <<"essid_mode", "txqueuelen">> /\ <<>> # <<"txqueuelen">>
    OBVIOUS
  <2>2. ASSUME WatchedInit, NEW p \in Proc PROVE QuietOf(p)
    <3>1. todo[p] = <<>>
      BY <2>2 DEF WatchedInit, Init
    <3>. QED BY <2>1, <3>1 DEF QuietOf
  <2>. QED BY <2>2 DEF WatchedInit, Init, QuietInv
<1>2. ASSUME WatchedInv, QuietInv, [Next /\ Watch]_watched PROVE QuietInv'
  <2>1. CASE UNCHANGED watched
    BY <1>2, <2>1 DEF watched, vars, system, air, tuning, daemon, QuietInv, QuietOf, There
  <2>2. CASE Next /\ Watch
    BY <1>2, <2>2, QuietKept, PowerKept, HostapdKept DEF WatchedInv, QuietInv
  <2>. QED BY <1>2, <2>1, <2>2
<1>. QED BY <1>1, <1>2, WatchedInvCorrect, PTL DEF WatchedSpec

(* What a call that ends undisturbed has just run, for each operation. *)
LEMMA LastCommand ==
  ASSUME CallInv, Next, NEW p \in Proc, Ends(p), Undisturbed(p)
  PROVE  /\ Works(p)
         /\ op[p] = "create" => Txqueuelen(p) /\ todo[p] = <<"txqueuelen">>
         /\ op[p] = "getPower" => IwlistTxpower(p) /\ arg[p].radio \in Radio
         /\ op[p] = "push" => Open(p, "wps_pbc", "pbc") /\ arg[p].ap \in Ap
         /\ op[p] = "apStatus" => Ifconfig(p) /\ arg[p].ap \in Ap
         /\ op[p] = "startHostApd" => Hostapd(p)
<1>1. Step(p) /\ Tail(todo[p]) = <<>>
  BY EndsIs
<1>2. /\ todo[p] \in Rests(op[p]) /\ op[p] \in Op /\ arg[p] \in Args(op[p])
      /\ todo[p] # <<>>
  BY <1>1, StepPrints
<1>3. Works(p)
  BY <1>1, OwnStep DEF Undisturbed, Lost
<1>4. /\ Tail(<<"create", "essid_mode", "txqueuelen">>) # <<>>
      /\ Tail(<<"essid_mode", "txqueuelen">>) # <<>>
      /\ Tail(<<"wps_cancel", "wps_pbc">>) # <<>>
  OBVIOUS
<1>5. op[p] = "create" => todo[p] = <<"txqueuelen">>
  BY <1>1, <1>2, <1>4 DEF Rests
<1>6. op[p] = "push" => todo[p] = <<"wps_pbc">>
  BY <1>1, <1>2, <1>4 DEF Rests
<1>7. op[p] \in Single => todo[p] = Commands[op[p]]
  BY <1>2, SingleRest
<1>8. {"getPower", "apStatus", "startHostApd"} \subseteq Single
  BY DEF Single
<1>9. /\ op[p] = "getPower" => todo[p] = <<"iwlist txpower">>
      /\ op[p] = "apStatus" => todo[p] = <<"ifconfig">>
      /\ op[p] = "startHostApd" => todo[p] = <<"hostapd">>
  BY <1>7, <1>8, CommandValues
<1>10. /\ op[p] = "getPower" => arg[p].radio \in Radio
       /\ op[p] \in {"push", "apStatus"} => arg[p].ap \in Ap
  BY <1>2 DEF Args, Fields
<1>. QED BY <1>3, <1>5, <1>6, <1>9, <1>10, WorksAs

(* The promises of QuietCallsWork, one by one (1673-1706, 874-897,         *)
(* 2571-2597, 2118-2138, 2070-2080).                                       *)
LEMMA QuietCreate ==
  ASSUME WatchedInv, QuietInv, Next, NEW p \in Proc, Ends(p), Undisturbed(p),
         op[p] = "create"
  PROVE  /\ vap'[arg[p].ap] # None
         /\ arg[p].essid \in Plain => vap'[arg[p].ap].essid = arg[p].essid
<1>1. Txqueuelen(p) /\ todo[p] = <<"txqueuelen">> /\ quiet[p]
  BY LastCommand DEF WatchedInv, Undisturbed
<1>. QED BY <1>1 DEF QuietInv, QuietOf, There, Txqueuelen, system, air

LEMMA QuietPower ==
  ASSUME WatchedInv, QuietInv, Next, NEW p \in Proc, Ends(p), Undisturbed(p),
         op[p] = "getPower", Exists(Main(arg[p].radio))
  PROVE  ret'[p] = power[vap[Main(arg[p].radio)].radio]
<1> DEFINE text == power[vap[Main(arg[p].radio)].radio]
<1>1. IwlistTxpower(p)
  BY LastCommand DEF WatchedInv
<1>2. Prints(p, text)
  BY <1>1 DEF IwlistTxpower
<1>3. ret'[p] = Answer("getPower", text, said[p] \cup {text})
  BY <1>2, EndsIs DEF WatchedInv
<1>4. vap[Main(arg[p].radio)] \in Vap
  BY DEF Exists, There, WatchedInv, CallInv, Types
<1>5. text \in Level
  BY <1>4 DEF Vap, QuietInv
<1>6. text # ""
  BY <1>5, LevelAssumption
<1>. HIDE DEF text
<1>7. Answer("getPower", text, said[p] \cup {text}) = text
  BY <1>6 DEF Answer
<1>8. ret'[p] = text
  BY <1>3, <1>7
<1>. QED BY <1>8 DEF text

LEMMA QuietPush ==
  ASSUME WatchedInv, Next, NEW p \in Proc, Ends(p), Undisturbed(p), op[p] = "push",
         opened[p] \/ session'[arg[p].ap] # session[arg[p].ap]
  PROVE  session'[arg[p].ap] = "pbc"
<1>1. Open(p, "wps_pbc", "pbc") /\ arg[p].ap \in Ap
  BY LastCommand DEF WatchedInv
<1>2. ~opened[p]
  BY DEF WatchedInv, ActedInv
<1>. QED BY <1>1, <1>2 DEF Open, Opens, WatchedInv, SessionInv, system, daemon

LEMMA QuietStatus ==
  ASSUME WatchedInv, Next, NEW p \in Proc, Ends(p), Undisturbed(p), op[p] = "apStatus"
  PROVE  /\ IsUp(arg[p].ap) => ret'[p] = "Up"
         /\ ~IsUp(arg[p].ap) /\ ret'[p] = "Up" =>
              \E b \in Ap \ {arg[p].ap} : <<arg[p].ap, b>> \in Extends /\ IsUp(b)
<1> DEFINE match == {b \in Ap : <<arg[p].ap, b>> \in Extends /\ There(b) /\ vap[b].up}
           text == IF match = {} THEN "" ELSE "lines"
<1>1. Ifconfig(p) /\ arg[p].ap \in Ap
  BY LastCommand DEF WatchedInv
<1>2. Prints(p, text)
  BY <1>1 DEF Ifconfig
<1>3. ret'[p] = Answer("apStatus", text, said[p] \cup {text})
  BY <1>2, EndsIs DEF WatchedInv
<1>. HIDE DEF match
<1>4. ret'[p] = IF match = {} THEN "Disable" ELSE "Up"
  BY <1>3 DEF Answer
<1>5. IsUp(arg[p].ap) => arg[p].ap \in match
  BY <1>1, ExtendsAssumption DEF match, IsUp
<1>6. ASSUME ~IsUp(arg[p].ap), ret'[p] = "Up"
      PROVE  \E b \in Ap \ {arg[p].ap} : <<arg[p].ap, b>> \in Extends /\ IsUp(b)
  <2>1. PICK b : b \in match
    BY <1>4, <1>6
  <2>2. b \in Ap /\ <<arg[p].ap, b>> \in Extends /\ IsUp(b)
    BY <2>1 DEF match, IsUp
  <2>. QED BY <1>6, <2>2
<1>. QED BY <1>4, <1>5, <1>6

LEMMA QuietHostapd ==
  ASSUME WatchedInv, QuietInv, Next, NEW p \in Proc, Ends(p), Undisturbed(p),
         op[p] = "startHostApd", \E b \in Ap : There(b), hostapd \notin {"on", "dying"}
  PROVE  hostapd' = "on"
<1>1. Hostapd(p) /\ hostapd \in {"off", "on", "dying"}
  BY LastCommand DEF WatchedInv, QuietInv
<1>. QED BY <1>1 DEF Hostapd

(* A call that nobody disturbs does what it is for (1673-1706, 874-897,    *)
(* 2571-2597, 2118-2138, 2070-2080), but a creation gives its access point *)
(* the name asked for only if that is plain: see QuietCallsWork.           *)
THEOREM QuietCallsWorkCorrect ==
  /\ WatchedSpec => QuietCallsWork
  /\ MCSpec => QuietCallsWork
<1> DEFINE A == \A p \in Proc :
       Ends(p) /\ Undisturbed(p) =>
         LET a == arg[p].ap IN
         /\ op[p] = "create" =>
              /\ vap'[a] # None
              /\ arg[p].essid \in Plain => vap'[a].essid = arg[p].essid
         /\ op[p] = "getPower" /\ Exists(Main(arg[p].radio)) =>
              ret'[p] = power[vap[Main(arg[p].radio)].radio]
         /\ op[p] = "push" /\ (opened[p] \/ session'[a] # session[a]) =>
              session'[a] = "pbc"
         /\ op[p] = "apStatus" /\ ~IsUp(a) /\ ret'[p] = "Up" =>
              \E b \in Ap \ {a} : <<a, b>> \in Extends /\ IsUp(b)
         /\ op[p] = "apStatus" /\ IsUp(a) => ret'[p] = "Up"
         /\ op[p] = "startHostApd" /\ (\E b \in Ap : There(b)) =>
              hostapd \in {"on", "dying"} \/ hostapd' = "on"
<1>1. WatchedInv /\ QuietInv /\ Next => A
  BY QuietCreate, QuietPower, QuietPush, QuietStatus, QuietHostapd
<1>2. WatchedInv /\ QuietInv /\ [Next /\ Watch]_watched => [A]_vars
  BY <1>1 DEF watched
<1>. QED
  BY <1>2, WatchedInvCorrect, QuietInvCorrect, TopicsAreWatched, PTL
     DEF WatchedSpec, QuietCallsWork
=============================================================================
