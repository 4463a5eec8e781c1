------------------------------- MODULE WifiAp -------------------------------
(***************************************************************************)
(* source/wifi/wifi_hal.c: access points, radios, hostapd and WPS.         *)
(*                                                                         *)
(* All state is the driver's and hostapd's.  A call runs one shell command *)
(* after the other, looks at what was printed, if at that, and knows of no *)
(* other call.  The commands a call has still to run are todo, what they   *)
(* have printed is said.  Any command can fail, and nobody reads a status. *)
(* What other programs do is modelled from how the commands are used.      *)
(*                                                                         *)
(* A definition marked "Variant" is not part of the model: it is the one   *)
(* below it with a plausible mistake.                                      *)
(***************************************************************************)
EXTENDS Integers, Sequences

CONSTANTS
  Proc,        \* threads and processes that use the API
  Ap,          \* apIndex: the access point is ath<apIndex>
  Radio,       \* radioIndex
  Extends,     \* <<a, b>>: the name of b begins with that of a: ath1, ath10
  Essid,       \* names an access point may have, or be asked to have
  Plain,       \* those that a shell reads as one word, just as it is
  Quotable,    \* those that it reads so between double quotes
  Channel, Tag,  \* what callers pass; what vlanId may hold
  Level,       \* transmit powers and thresholds callers pass
  Off,         \* the level 0, which turns a threshold off
  None,
  Hazard       \* which of HazardKinds may strike

HazardKinds ==
  { "fails",   \* a command does nothing, or cannot be started
    "noReply", \* hostapd has done what it was asked, and its reply is lost
    "crash" }  \* a process dies

ASSUME RadioAssumption == Radio \subseteq {0, 1}
ASSUME ApAssumption == Ap \subseteq Nat
ASSUME ExtendsAssumption ==
  Extends \subseteq Ap \X Ap /\ \A a \in Ap : <<a, a>> \in Extends
ASSUME EssidAssumption == Plain \subseteq Quotable /\ Quotable \subseteq Essid
ASSUME TagAssumption == 100 \in Tag
ASSUME LevelAssumption == Off \in Level /\ "" \notin Level
ASSUME NoneAssumption == None \notin Essid \cup Channel \cup Tag
ASSUME VapAssumption ==
  None \notin [essid : Essid \cup {None}, radio : Radio, up : BOOLEAN]
ASSUME HazardAssumption == Hazard \subseteq HazardKinds

VARIABLES
  vap,         \* vap[a]: the driver's [essid, radio, up], or None
  chan,        \* chan[r]: the channel radio r is tuned to, or None
  power,       \* power[r]: its transmit power
  frag,        \* frag[r]: its fragmentation threshold
  rts,         \* rts[a]: the RTS threshold of a
  tag,         \* tag[a]: the VLAN id cfgVlan was given for a, or None
  hostapd,     \* the daemon: "off", "on", or "dying" after killall
  served,      \* access points hostapd serves
  wpsState,    \* wpsState[a]: what hostapd's configuration says
  session,     \* session[a]: the WPS session that is on: "pbc", "pin", "none"
  op, arg,     \* the call of p and what it is about
  todo, said,  \* commands to run, what those before have printed
  ret          \* what the last call returned or stored

tuning == <<chan, power, frag>>
air == <<vap, tuning, rts, tag>>
daemon == <<hostapd, served, wpsState, session>>
system == <<air, daemon>>
vars == <<system, op, arg, todo, said, ret>>

(* Variant: the button is pushed before sessions are cancelled. *)
PushCommandsSwapped == <<"wps_pbc", "wps_cancel">>
PushCommands == <<"wps_cancel", "wps_pbc">>
(* Variant: the name is set before there is an access point. *)
CreateCommandsSwapped == <<"essid_mode", "create", "txqueuelen">>
CreateCommands == <<"create", "essid_mode", "txqueuelen">>
(* wifi_resetApVlanCfg removes nothing: it pushes the bridge again.        *)
BridgeCommands == <<"cfgVlan">>
(* The commands of each operation.  The checks of wifi_getApEnable and     *)
(* wifi_getApWpsEnable before a PIN or a push always find TRUE, and        *)
(* wifi_pushSsidAdvertisementEnable and wifi_removeApSecVaribles do nothing.*)
Commands ==
  [create |-> CreateCommands,
   delete |-> <<"destroy">>,
   ifUp |-> <<"up">>,
   pushSSID |-> <<"essid">>,
   pushChannel |-> <<"freq">>,
   pushBridge |-> BridgeCommands,
   resetVlan |-> BridgeCommands,
   setPower |-> <<"txpower">>,
   getPower |-> <<"iwlist txpower">>,
   setFrag |-> <<"frag">>,
   bitRate |-> <<"iwconfig">>,
   setRts |-> <<"rts">>,
   apStatus |-> <<"ifconfig">>,
   ssidStatus |-> <<"ifconfig of one">>,
   channel |-> <<"iwlist">>,
   mac |-> <<"HWaddr">>,
   startHostApd |-> <<"hostapd">>,
   stopHostApd |-> <<"killall">>,
   push |-> PushCommands,
   pin |-> <<"wps_pin">>,
   cancel |-> <<"wps_cancel">>,
   wpsStatus |-> <<"get_config">>]

Op == DOMAIN Commands

Init ==
  /\ vap = [a \in Ap |-> None]
  /\ chan = [r \in Radio |-> None]
  /\ power \in [Radio -> Level]
  /\ frag = [r \in Radio |-> Off]
  /\ rts = [a \in Ap |-> Off]
  /\ tag = [a \in Ap |-> None]
  /\ hostapd = "off" /\ served = {}
  /\ wpsState \in [Ap -> {"disabled", "not configured", "configured"}]
  /\ session = [a \in Ap |-> "none"]
  /\ op = [p \in Proc |-> None]
  /\ arg = [p \in Proc |-> None]
  /\ todo = [p \in Proc |-> <<>>]
  /\ said = [p \in Proc |-> {}]
  /\ ret = [p \in Proc |-> "none"]

-----------------------------------------------------------------------------
(* What a call makes of what its commands printed.                         *)

(* Variant: only the reply of the last command counts. *)
RepliedLast(text, texts) == text = "OK"
(* One OK among all that was printed is enough. *)
Replied(text, texts) == "OK" \in texts

(* text is the last reply, texts are all of them.  The word looked for is  *)
(* "configured", which both states end in (2531-2536).                     *)
Answer(o, text, texts) ==
  CASE o \in {"push", "pin", "cancel"} ->
         IF Replied(text, texts) THEN "OK" ELSE "ERR"
    [] o = "apStatus" -> IF text = "" THEN "Disable" ELSE "Up"
    [] o = "ssidStatus" -> IF text = "" THEN "Disabled" ELSE "Enabled"
    [] o = "wpsStatus" ->
         IF text \in {"not configured", "configured"}
         THEN "Configured" ELSE "Not configured"
    [] o = "channel" -> IF text = "" THEN "0" ELSE text
    [] o = "getPower" -> IF text = "" THEN Off ELSE text
    [] o \in {"mac", "bitRate"} -> text
    [] o = "resetVlan" -> "ERR"         \* whatever became of it (2060)
    [] OTHER -> "OK"

Runs(p, command) == todo[p] # <<>> /\ Head(todo[p]) = command

(* Variant: a session is cancelled until hostapd answers. *)
RestOrAgain(p, text) ==
  IF op[p] = "cancel" /\ text = "" THEN todo[p] ELSE Tail(todo[p])
(* Whatever the reply, the call goes on. *)
Rest(p, text) == Tail(todo[p])

(* A command of p has printed text; the last one ends the call. *)
Prints(p, text) ==
  LET texts == said[p] \cup {text}
      last == Rest(p, text) = <<>>
  IN /\ todo' = [todo EXCEPT ![p] = Rest(p, text)]
     /\ said' = [said EXCEPT ![p] = IF last THEN {} ELSE texts]
     /\ ret' = [ret EXCEPT ![p] =
                  IF last THEN Answer(op[p], text, texts) ELSE @]
     /\ op' = [op EXCEPT ![p] = IF last THEN None ELSE @]
     /\ arg' = [arg EXCEPT ![p] = IF last THEN None ELSE @]

Fields(o) ==
  CASE o = "create" -> {"ap", "radio", "essid"}
    [] o = "pushSSID" -> {"ap", "essid"}
    [] o = "pushChannel" -> {"radio", "channel"}
    [] o = "setPower" -> {"radio", "level"}
    [] o \in {"setFrag", "setRts"} -> {"ap", "level"}
    [] o \in {"channel", "getPower", "bitRate"} -> {"radio"}
    [] o \in {"startHostApd", "stopHostApd"} -> {}
    [] OTHER -> {"ap"}

Args(o) ==
  LET Of(field, values) == IF field \in Fields(o) THEN values ELSE {None}
  IN [ap : Of("ap", Ap), radio : Of("radio", Radio),
      essid : Of("essid", Essid), channel : Of("channel", Channel),
      level : Of("level", Level)]

Call(p, o, x) ==
  /\ todo[p] = <<>>
  /\ todo' = [todo EXCEPT ![p] = Commands[o]]
  /\ op' = [op EXCEPT ![p] = o]
  /\ arg' = [arg EXCEPT ![p] = x]
  /\ ret' = [ret EXCEPT ![p] = "none"]
  /\ UNCHANGED <<system, said>>

-----------------------------------------------------------------------------
(* wlanconfig, iwconfig, ifconfig: the driver.                             *)

There(a) == vap[a] # None

Create(p) ==
  LET a == arg[p].ap IN
  /\ Runs(p, "create")
  /\ vap' = IF There(a) THEN vap
            ELSE [vap EXCEPT ![a] = [essid |-> None, radio |-> arg[p].radio,
                                     up |-> FALSE]]
  /\ Prints(p, "") /\ UNCHANGED <<tuning, rts, tag, daemon>>

(* What the name of an access point becomes when asked is written into a  *)
(* command that a shell reads as it should only if asked is in verbatim.   *)
(* Otherwise the name becomes another one, or stays what it was.           *)
Names(old, asked, verbatim) ==
  IF asked \in verbatim THEN {asked} ELSE {old} \cup (Essid \ {asked})

Rename(p, verbatim) ==
  LET a == arg[p].ap IN
  /\ IF There(a)
     THEN \E e \in Names(vap[a].essid, arg[p].essid, verbatim) :
            vap' = [vap EXCEPT ![a].essid = e]
     ELSE vap' = vap
  /\ Prints(p, "") /\ UNCHANGED <<tuning, rts, tag, daemon>>

(* The name is not quoted: with a blank in it iwconfig gets another name   *)
(* and words it does not know, and an empty one makes "mode" the name.     *)
CreateEssid(p) == Runs(p, "essid_mode") /\ Rename(p, Plain)

(* Here it is quoted, which leaves the characters special between quotes.  *)
SetEssid(p) == Runs(p, "essid") /\ Rename(p, Quotable)

(* The length of the queue has no consequence here. *)
Txqueuelen(p) == Runs(p, "txqueuelen") /\ Prints(p, "") /\ UNCHANGED system

Up(p) ==
  LET a == arg[p].ap IN
  /\ Runs(p, "up")
  /\ vap' = IF There(a) THEN [vap EXCEPT ![a].up = TRUE] ELSE vap
  /\ Prints(p, "") /\ UNCHANGED <<tuning, rts, tag, daemon>>

Destroy(p) ==
  LET a == arg[p].ap IN
  /\ Runs(p, "destroy")
  /\ vap' = [vap EXCEPT ![a] = None]
  /\ tag' = [tag EXCEPT ![a] = None]
  /\ rts' = [rts EXCEPT ![a] = Off]
  /\ served' = served \ {a}
  /\ session' = [session EXCEPT ![a] = "none"]
  /\ Prints(p, "") /\ UNCHANGED <<tuning, hostapd, wpsState>>

(* A radio is set through an access point on it; for the channel and the  *)
(* power this is ath0 or ath1, on whatever radio it is (639, 913, 2912).   *)
Main(r) == IF r = 0 THEN 0 ELSE 1
Exists(a) == a \in Ap /\ There(a)
RadioSet(setting, a, value) ==
  IF Exists(a) THEN [setting EXCEPT ![vap[a].radio] = value] ELSE setting

Freq(p) ==
  /\ Runs(p, "freq")
  /\ chan' = RadioSet(chan, Main(arg[p].radio), arg[p].channel)
  /\ Prints(p, "") /\ UNCHANGED <<vap, power, frag, rts, tag, daemon>>

Txpower(p) ==
  /\ Runs(p, "txpower")
  /\ power' = RadioSet(power, Main(arg[p].radio), arg[p].level)
  /\ Prints(p, "") /\ UNCHANGED <<vap, chan, frag, rts, tag, daemon>>

IwlistTxpower(p) ==
  LET a == Main(arg[p].radio) IN
  /\ Runs(p, "iwlist txpower")
  /\ Prints(p, IF Exists(a) THEN power[vap[a].radio] ELSE "")
  /\ UNCHANGED system

Iwconfig(p) ==
  /\ Runs(p, "iwconfig")
  /\ Prints(p, IF Exists(Main(arg[p].radio)) THEN "rate" ELSE "")
  /\ UNCHANGED system

Frag(p) ==
  /\ Runs(p, "frag")
  /\ frag' = RadioSet(frag, arg[p].ap, arg[p].level)
  /\ Prints(p, "") /\ UNCHANGED <<vap, chan, power, rts, tag, daemon>>

Rts(p) ==
  LET a == arg[p].ap IN
  /\ Runs(p, "rts")
  /\ rts' = IF There(a) THEN [rts EXCEPT ![a] = arg[p].level] ELSE rts
  /\ Prints(p, "") /\ UNCHANGED <<vap, tuning, tag, daemon>>

(* vlanId is set for ath0 only, and holds anything for the others.         *)
CfgVlan(p) ==
  LET a == arg[p].ap IN
  /\ Runs(p, "cfgVlan")
  /\ \E v \in Tag :
       /\ a = 0 => v = 100
       /\ tag' = IF There(a) THEN [tag EXCEPT ![a] = v] ELSE tag
  /\ Prints(p, "") /\ UNCHANGED <<vap, tuning, rts, daemon>>

(* "ifconfig | grep ath1" prints every interface that is up and whose name *)
(* contains ath1; "ifconfig ath1" prints it up or down.                    *)
Ifconfig(p) ==
  /\ Runs(p, "ifconfig")
  /\ LET match == {b \in Ap : /\ <<arg[p].ap, b>> \in Extends
                              /\ There(b) /\ vap[b].up}
     IN Prints(p, IF match = {} THEN "" ELSE "lines")
  /\ UNCHANGED system

IfconfigOfOne(p) ==
  /\ Runs(p, "ifconfig of one")
  /\ Prints(p, IF There(arg[p].ap) THEN "lines" ELSE "")
  /\ UNCHANGED system

(* The pipeline has two bars with nothing in between (642): a shell does   *)
(* not run it at all.                                                      *)
Iwlist(p) == Runs(p, "iwlist") /\ Prints(p, "") /\ UNCHANGED system

(* In the C string the blank for tr is outside the quotes (1184, 1203):    *)
(* tr has no operand, stops, and nothing comes out of the pipeline.        *)
HWaddr(p) == Runs(p, "HWaddr") /\ Prints(p, "") /\ UNCHANGED system

-----------------------------------------------------------------------------
(* hostapd and hostapd_cli.                                                *)

(* A second daemon does not start while there is one, dying or not.        *)
Hostapd(p) ==
  LET aps == {a \in Ap : There(a)} IN
  /\ Runs(p, "hostapd")
  /\ IF hostapd = "off" /\ aps # {}
     THEN hostapd' = "on" /\ served' = aps
     ELSE UNCHANGED <<hostapd, served>>
  /\ Prints(p, "") /\ UNCHANGED <<air, wpsState, session>>

(* killall only sends a signal. *)
Killall(p) ==
  /\ Runs(p, "killall")
  /\ hostapd' = IF hostapd = "on" THEN "dying" ELSE hostapd
  /\ Prints(p, "") /\ UNCHANGED <<air, served, wpsState, session>>

Serves(a) == a \in served /\ hostapd # "off"

(* "wps_cancel"; hostapd replies ok.                                       *)
Cancels(p, ok) ==
  LET a == arg[p].ap IN
  /\ Runs(p, "wps_cancel")
  /\ session' = [session EXCEPT ![a] = "none"]
  /\ Prints(p, IF Serves(a) THEN ok ELSE "")
  /\ UNCHANGED <<air, hostapd, served, wpsState>>

(* hostapd opens the session and replies ok. *)
Opens(p, command, kind, ok) ==
  LET a == arg[p].ap IN
  /\ Runs(p, command)
  /\ Serves(a) /\ wpsState[a] # "disabled"
  /\ session' = [session EXCEPT ![a] = kind]
  /\ Prints(p, ok)
  /\ UNCHANGED <<air, hostapd, served, wpsState>>

WpsCancel(p) == Cancels(p, "OK")

(* hostapd opens the session, or says FAIL: WPS may be disabled, or two    *)
(* stations have pushed their buttons.                                     *)
Open(p, command, kind) ==
  \/ Opens(p, command, kind, "OK")
  \/ /\ Runs(p, command)
     /\ Prints(p, IF Serves(arg[p].ap) THEN "FAIL" ELSE "")
     /\ UNCHANGED system

GetConfig(p) ==
  LET a == arg[p].ap IN
  /\ Runs(p, "get_config")
  /\ Prints(p, IF Serves(a) THEN wpsState[a] ELSE "")
  /\ UNCHANGED system

(* The command does nothing and prints nothing of use. *)
CommandFails(p) ==
  /\ "fails" \in Hazard
  /\ todo[p] # <<>>
  /\ Prints(p, "")
  /\ UNCHANGED system

(* hostapd has acted, but what it replied did not come, or came too late   *)
(* for hostapd_cli.                                                        *)
ReplyLost(p) ==
  /\ "noReply" \in Hazard
  /\ \/ Cancels(p, "")
     \/ Opens(p, "wps_pbc", "pbc", "") \/ Opens(p, "wps_pin", "pin", "")

Step(p) ==
  \/ Create(p) \/ CreateEssid(p) \/ SetEssid(p) \/ Txqueuelen(p) \/ Up(p) \/ Destroy(p)
  \/ Freq(p) \/ Txpower(p) \/ IwlistTxpower(p) \/ Iwconfig(p) \/ Frag(p)
  \/ Rts(p) \/ CfgVlan(p) \/ Ifconfig(p) \/ IfconfigOfOne(p)
  \/ Iwlist(p) \/ HWaddr(p) \/ Hostapd(p) \/ Killall(p) \/ WpsCancel(p)
  \/ Open(p, "wps_pbc", "pbc") \/ Open(p, "wps_pin", "pin")
  \/ GetConfig(p) \/ CommandFails(p) \/ ReplyLost(p)

-----------------------------------------------------------------------------
(* The rest of the system.                                                 *)

(* The daemon gets the signal. *)
Exit ==
  /\ hostapd = "dying"
  /\ hostapd' = "off" /\ served' = {}
  /\ session' = [a \in Ap |-> "none"]
  /\ UNCHANGED <<air, wpsState, op, arg, todo, said, ret>>

(* A session times out, or a station joins and the access point counts as  *)
(* configured.                                                             *)
SessionEnds(a) ==
  /\ session[a] # "none"
  /\ session' = [session EXCEPT ![a] = "none"]
  /\ \/ UNCHANGED wpsState
     \/ wpsState' = [wpsState EXCEPT ![a] = "configured"]
  /\ UNCHANGED <<air, hostapd, served, op, arg, todo, said, ret>>

(* A process dies, and is started again. *)
Crash(p) ==
  /\ "crash" \in Hazard
  /\ todo[p] # <<>>
  /\ todo' = [todo EXCEPT ![p] = <<>>]
  /\ said' = [said EXCEPT ![p] = {}]
  /\ ret' = [ret EXCEPT ![p] = "none"]
  /\ op' = [op EXCEPT ![p] = None]
  /\ arg' = [arg EXCEPT ![p] = None]
  /\ UNCHANGED system

(* What can happen when the operations called are those of ops. *)
NextOf(ops) ==
  \/ \E p \in Proc : (\E o \in ops : \E x \in Args(o) : Call(p, o, x))
                     \/ Step(p) \/ Crash(p)
  \/ Exit
  \/ \E a \in Ap : SessionEnds(a)

Next == NextOf(Op)
Spec == Init /\ [][Next]_vars
FairSpec == Spec /\ \A p \in Proc : WF_vars(Step(p))

-----------------------------------------------------------------------------
(* When no command fails, no process dies and the names that are asked for *)
(* are plain, an access point has no name only while a call is about to    *)
(* give it one, however calls that create, delete and rename it interleave *)
(* (1688-1695).                                                            *)
Nameless(a) == There(a) /\ vap[a].essid = None
BeingNamed(a) ==
  \E p \in Proc : op[p] = "create" /\ arg[p].ap = a /\ Runs(p, "essid_mode")
NamedOrBeingNamed == \A a \in Ap : Nameless(a) => BeingNamed(a)
=============================================================================
