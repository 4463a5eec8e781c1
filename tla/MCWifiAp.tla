------------------------------ MODULE MCWifiAp ------------------------------
(* An instance of WifiAp for TLC.  A behaviour is about two access points, *)
(* about the channel and the bridge of one, about its power and thresholds,*)
(* or about hostapd and WPS on one: the topic.  History variables tell     *)
(* what went on during the calls.                                          *)
EXTENDS WifiAp, TLC

MCExtends == {e \in Ap \X Ap : e[1] = e[2] \/ e = <<1, 10>>}

VARIABLES
  topic,
  quiet,   \* quiet[p]: nothing happened during p's call but what p did;
           \* kept for the operations that a property about it names
  acted,   \* acted[p]: commands of p's call have touched a WPS session
  opened,  \* opened[p]: one of them has opened a session
  heard,   \* heard[p]: no reply to one of them was lost
  faulty   \* a command has failed, a process has died, or a new access point
           \* was to get a name that is not plain; kept for "aps"

Topics ==
  [aps |-> {"create", "delete", "ifUp", "pushSSID", "apStatus"},
   radio |-> {"create", "delete", "pushChannel", "channel", "pushBridge",
              "resetVlan", "ssidStatus"},
   tuning |-> {"create", "setPower", "getPower", "setFrag", "setRts",
               "bitRate", "mac"},
   wps |-> {"create", "delete", "startHostApd", "stopHostApd", "push", "pin", "cancel",
            "wpsStatus"}]

MCInit ==
  /\ Init
  /\ topic \in DOMAIN Topics
  /\ quiet = [p \in Proc |-> TRUE]
  /\ acted = [p \in Proc |-> FALSE]
  /\ opened = [p \in Proc |-> FALSE]
  /\ heard = [p \in Proc |-> TRUE]
  /\ faulty = (topic # "aps")
  /\ power = [r \in Radio |-> Off]
  /\ \A a \in Ap : topic # "wps" \/ a # 1 => wpsState[a] = "disabled"

Own(p) == todo[p] # <<>> /\ todo'[p] # todo[p]

(* A command of p does what it is for and is heard. *)
Works(p) ==
  \/ Create(p) \/ CreateEssid(p) \/ SetEssid(p) \/ Txqueuelen(p) \/ Up(p) \/ Destroy(p)
  \/ Freq(p) \/ Txpower(p) \/ IwlistTxpower(p) \/ Iwconfig(p) \/ Frag(p)
  \/ Rts(p) \/ CfgVlan(p) \/ Ifconfig(p) \/ IfconfigOfOne(p)
  \/ Iwlist(p) \/ HWaddr(p) \/ Hostapd(p) \/ Killall(p) \/ WpsCancel(p)
  \/ Open(p, "wps_pbc", "pbc") \/ Open(p, "wps_pin", "pin") \/ GetConfig(p)
Lost(p) == Own(p) /\ ~Works(p)

(* A command of p changes a session, and nobody hears of it. *)
Unheard(p) == Lost(p) /\ session' # session

InTopic ==
  /\ UNCHANGED topic
  /\ \A p \in Proc :
       op'[p] # None /\ op[p] = None =>
         /\ topic # "aps" => arg'[p].ap \in {1, None}
         /\ topic # "aps" \/ arg'[p].ap # 1 => arg'[p].essid \in Plain \cup {None}
         /\ op'[p] \in {"setFrag", "setRts"} => arg'[p].level # Off
         /\ topic \in {"aps", "radio"} /\ op'[p] = "create" =>
              arg'[p].radio = arg'[p].ap % 2

Promising == {"create", "push", "getPower", "channel", "apStatus", "startHostApd"}

Watch ==
  LET lost == {p \in Proc : Lost(p)}
      still == UNCHANGED system
      busy == {p \in Proc : todo'[p] # <<>>}
  IN
  /\ quiet' = [p \in Proc |->
                 p \notin busy \/ todo[p] = <<>> \/ op[p] \notin Promising
                 \/ (quiet[p] /\ (still \/ Own(p)) /\ p \notin lost)]
  /\ acted' = [p \in Proc |->
                 p \in busy /\ (acted[p] \/ (Own(p) /\ session' # session))]
  /\ opened' = [p \in Proc |->
                 p \in busy
                 /\ (opened[p] \/ (Own(p) /\ session' # session
                                   /\ session'[arg[p].ap] = "pbc"))]
  /\ heard' = [p \in Proc |-> p \notin busy \/ (heard[p] /\ ~Unheard(p))]
  /\ faulty' = (faulty \/ lost # {}
                 \/ \E p \in Proc : op'[p] = "create" /\ arg'[p].essid \notin Plain)

MCNext == NextOf(Topics[topic]) /\ InTopic /\ Watch
MCSpec ==
  /\ MCInit /\ [][MCNext]_<<vars, topic, quiet, acted, opened, heard, faulty>>
  /\ \A p \in Proc : WF_vars(Step(p))

-----------------------------------------------------------------------------
Ends(p) == Own(p) /\ todo'[p] = <<>> /\ ret'[p] # "none"
Undisturbed(p) == quiet[p] /\ ~Lost(p)

(* As long as nothing has failed, no process has died and every access     *)
(* point was to get a plain name, one has no name only while a call is     *)
(* about to give it one (1688-1695).                                       *)
NamelessHasCreator == ~faulty => NamedOrBeingNamed

IsUp(a) == There(a) /\ vap[a].up

(* A call that nobody disturbs and whose commands work does what it is     *)
(* for: wifi_createAp leaves an access point, and one of the name asked    *)
(* for if that is plain: with a blank in it, or empty, it is not (1690).   *)
(* wifi_setApWpsButtonPush, which cancels sessions too, does not cancel    *)
(* the one it opens.                                                       *)
(* wifi_getRadioTransmitPower gives the power of its access point's radio; *)
(* wifi_getApStatus tells up from down unless another access point that is *)
(* up has a name that begins alike (2119); and wifi_startHostApd leaves a  *)
(* daemon that stays, unless one is about to go (2090).                    *)
QuietCallsWork ==
  [][\A p \in Proc :
       Ends(p) /\ Undisturbed(p) =>
         LET a == arg[p].ap IN
         /\ op[p] = "create" =>
              /\ vap'[a] # None
              /\ arg[p].essid \in Plain => vap'[a].essid = arg[p].essid
         /\ op[p] = "getPower" /\ Exists(Main(arg[p].radio)) =>
              ret'[p] = power[vap[Main(arg[p].radio)].radio]
         /\ op[p] = "push" /\ (opened[p] \/ session'[a] # session[a]) =>
              session'[a] = "pbc"
         /\ op[p] = "apStatus" /\ ~IsUp(a) /\ ret'[p] = "Up" =>
              \E b \in Ap \ {a} : <<a, b>> \in Extends /\ IsUp(b)
         /\ op[p] = "apStatus" /\ IsUp(a) => ret'[p] = "Up"
         /\ op[p] = "startHostApd" /\ (\E b \in Ap : There(b)) =>
              hostapd \in {"on", "dying"} \/ hostapd' = "on"]_vars

(* A WPS call that returns RETURN_ERR has neither opened nor cancelled a   *)
(* session, whatever others did meanwhile and whichever command failed,    *)
(* unless hostapd did what it was asked and its reply was lost.            *)
ErrDidNothing ==
  [][\A p \in Proc :
       Ends(p) /\ ret'[p] = "ERR" /\ heard[p] /\ ~Unheard(p) =>
         ~acted[p] /\ session' = session]_vars

(* Every call returns: none of them waits for another. *)
Returns == \A p \in Proc : todo[p] # <<>> ~> todo[p] = <<>>

(* "Get the running channel number" (627): a call that nobody disturbs     *)
(* answers the channel that the radio of its access point is tuned to.     *)
AnswersRunningChannel ==
  [][\A p \in Proc :
       /\ Ends(p) /\ Undisturbed(p) /\ op[p] = "channel"
       /\ Exists(Main(arg[p].radio))
       => LET tuned == chan[vap[Main(arg[p].radio)].radio] IN
          tuned # None => ret'[p] = tuned]_vars
=============================================================================
