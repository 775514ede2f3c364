----------------------------- MODULE LanConfig -----------------------------
(***************************************************************************)
(* The network settings of the gateway, shown and changed by SetupManager.c*)
(* on requests in UDP datagrams (GETLANINFO and SETLANINFO).  They are     *)
(* kept in four files, and once more in the file that wpa_supplicant reads.*)
(* A file is emptied when it is opened for writing, and what was printed   *)
(* into it gets there when it is closed.  Nothing forces it to the disk    *)
(* then: after a failure of the gateway a file may be empty, or have any   *)
(* of the contents it had since the last start.                            *)
(*                                                                         *)
(* The clients, the scripts that configure the interfaces and failures of  *)
(* the gateway are environment.  Netmask, gateway and name server are      *)
(* treated as the address is; auth_alg and key_flag are 0 in all files.    *)
(***************************************************************************)
EXTENDS Integers, Sequences

CONSTANTS
    Entry,          \* settings that an operator enters
    Word,           \* network names and keys in them, shorter than their fields
    Addr,           \* addresses, as numbers of the host; 0 is one of them
    Rev,            \* the address with its bytes in the other order
    MaxRequests,    \* bound of the model: requests to change settings
    MaxCrashes      \* bound of the model: failures of the gateway

\* Other contents of a field: nothing, as many bytes as the field has; and of
\* a line, the bytes of the field and of those behind it, and the text (null).
Value == Word \union {"blank", "full", "overrun", "null"}

Settings == [lanOn : BOOLEAN, wlanOn : BOOLEAN, lan : Addr, wlan : Addr, name : Value,
             mgmt : 0 .. 2, group : {0, 3, 4}, wep : [{3, 4} -> Value], psk : Value]

ASSUME LanConfigAssumption ==
    /\ Entry \subseteq Settings
    /\ 0 \in Addr /\ Rev \in [Addr -> Addr] /\ Rev[0] = 0
    /\ \A a \in Addr : Rev[Rev[a]] = a
    /\ Word \intersect {"blank", "full", "overrun", "null"} = {}
    /\ MaxRequests \in Nat /\ MaxCrashes \in Nat

VARIABLES
    files,      \* the files, <<>> after fopen, else <<contents>>
    disk,       \* what of each file a failure may leave: its contents since the start
    device,     \* the settings last read
    saveDev,    \* the settings asked for
    todo,       \* the steps of SETLANINFO still to be done
    open,       \* the file of the first of them is open
    status,     \* the byte of the reply that says whether a script failed
    known,      \* what the client was shown last; none: <<>>
    applied,    \* history: what the scripts have configured, none: <<>>
    answer,     \* history: status of the last reply, -1 while there is none
    torn,       \* history: files that a failure left undone or took back
    requests,   \* how much of MaxRequests was used
    crashes     \* how much of MaxCrashes was used

stepVars == <<files, disk, saveDev, todo, open, status, applied, answer, torn>>
vars == <<stepVars, device, known, requests, crashes>>

File    == {"use", "eth", "wlan", "sec", "script"}
Scripts == {"eth.sh", "wlan.sh"}
Blank   == [lanOn |-> FALSE, wlanOn |-> FALSE, lan |-> 0, wlan |-> 0, name |-> "blank",
            mgmt |-> 0, group |-> 0, wep |-> [g \in {3, 4} |-> "blank"], psk |-> "blank"]

-----------------------------------------------------------------------------
(* Writing and reading of the files.                                       *)

\* A full field has no end of its own: strtok goes on to the byte behind it.
\* It finds nothing in a blank one, and fprintf prints (null).
Printed(value, behind) ==
    CASE value = "blank"           -> "null"
      [] value = "full" /\ behind  -> "overrun"
      [] OTHER                     -> value

\* The line of the key, if there is one.
KeyLine(s) ==
    CASE s.mgmt = 1 /\ s.group \in {3, 4} -> <<Printed(s.wep[s.group], FALSE)>>
      [] s.mgmt = 2                       -> <<Printed(s.psk, s.lanOn)>>
      [] OTHER                            -> <<>>

\* WEP is written as NONE with a key, and a group that says so.
SecurityConfig(s) ==
    [name  |-> Printed(s.name, s.mgmt # 0),
     mgmt  |-> IF s.mgmt = 2 THEN "WPA-PSK" ELSE "NONE",
     group |-> IF s.mgmt = 1 THEN s.group ELSE 0,
     key   |-> KeyLine(s)]

SecurityScript(s) ==
    [name  |-> Printed(s.name, s.mgmt # 0),
     mgmt  |-> IF s.mgmt = 2 THEN "WPA-PSK" ELSE "NONE",
     group |-> IF s.mgmt = 1 THEN s.group ELSE 0,
     key   |-> KeyLine(s)]

\* htonl changes the order of the bytes; inet_addr does not change it back.
NetworkConfig(address) == Rev[address]

UseConfig(s) == [lan |-> s.lanOn, wlan |-> s.wlanOn]

Content(f, s) ==
    CASE f = "use"    -> UseConfig(s)
      [] f = "eth"    -> NetworkConfig(s.lan)
      [] f = "wlan"   -> NetworkConfig(s.wlan)
      [] f = "sec"    -> SecurityConfig(s)
      [] f = "script" -> SecurityScript(s)

\* An empty file leaves the settings as they were read before.
ReadNetwork(file, before) == IF file = <<>> THEN before ELSE file[1]

ReadUse(d) ==
    IF files["use"] = <<>> THEN d
    ELSE [d EXCEPT !.lanOn = files["use"][1].lan, !.wlanOn = files["use"][1].wlan]

\* Mutant of KeyMgmt: NONE is taken for WEP.
KeyMgmtWep(word) == IF word = "WPA-PSK" THEN 2 ELSE 1

\* The numbers are not those that SETLANINFO understands.
KeyMgmt(word) == IF word = "WPA-PSK" THEN 1 ELSE 0

\* A line of any other name is a WEP key, if a group was read, now or before.
ReadSecurity(file, d) ==
    IF file = <<>> THEN d
    ELSE LET lines == file[1]
             group == IF lines.group # 0 THEN lines.group ELSE d.group IN
         [d EXCEPT !.name  = IF lines.name = "overrun" THEN "full" ELSE lines.name,
                   !.mgmt  = KeyMgmt(lines.mgmt),
                   !.group = group,
                   !.wep   = IF lines.key # <<>> /\ group # 0
                             THEN [@ EXCEPT ![group] = lines.key[1]] ELSE @]

\* What GETLANINFO reads into device.
Read(d) ==
    ReadUse(ReadSecurity(files["sec"],
        [d EXCEPT !.lan = ReadNetwork(files["eth"], @), !.wlan = ReadNetwork(files["wlan"], @)]))

-----------------------------------------------------------------------------
(* The requests.                                                           *)

\* The gateway is delivered with the files of some settings.
Init ==
    /\ \E s \in Entry : files = [f \in File |-> <<Content(f, s)>>]
    /\ disk = [f \in File |-> {files[f]}]
    /\ device = Blank /\ saveDev = Blank
    /\ todo = <<>> /\ open = FALSE /\ status = 0
    /\ known = <<>> /\ applied = [i \in Scripts |-> <<>>] /\ answer = -1
    /\ torn = {}
    /\ requests = 0 /\ crashes = 0

Get ==
    /\ todo = <<>>
    /\ device' = Read(device)
    /\ known' = <<device'>>
    /\ UNCHANGED <<stepVars, requests, crashes>>

\* Mutant of Steps: an open network needs no new file for wpa_supplicant.
StepsSkip(s) ==
    <<"use">> \o (IF s.lanOn THEN <<"eth", "eth.sh">> ELSE <<>>)
    \o (IF s.wlanOn
        THEN <<"wlan", "sec">> \o (IF s.mgmt = 0 THEN <<>> ELSE <<"script">>) \o <<"wlan.sh">>
        ELSE <<>>)
    \o <<"answer">>

\* What SETLANINFO does; the files of an interface that is off are left alone.
Steps(s) ==
    <<"use">> \o (IF s.lanOn THEN <<"eth", "eth.sh">> ELSE <<>>)
    \o (IF s.wlanOn THEN <<"wlan", "sec", "script", "wlan.sh">> ELSE <<>>)
    \o <<"answer">>

Request(s) ==
    /\ todo = <<>>
    /\ requests < MaxRequests
    /\ saveDev' = s
    /\ todo' = Steps(s)
    /\ status' = 0 /\ answer' = -1
    /\ requests' = requests + 1
    /\ UNCHANGED <<files, disk, device, open, known, applied, torn, crashes>>

Set == \E s \in Entry : Request(s)

\* The client sends what it was shown, as it is or with interfaces switched.
SetShown ==
    /\ known # <<>>
    /\ \E lanOn, wlanOn \in BOOLEAN :
        Request([known[1] EXCEPT !.lanOn = lanOn, !.wlanOn = wlanOn])

Write(f, contents) ==
    /\ files' = [files EXCEPT ![f] = contents]
    /\ disk' = [disk EXCEPT ![f] = @ \union {contents}]

\* The mode is "w": the old contents are gone at once.
OpenFile ==
    /\ todo # <<>> /\ Head(todo) \in File /\ ~open
    /\ Write(Head(todo), <<>>)
    /\ open' = TRUE
    /\ UNCHANGED <<device, saveDev, todo, status, known, applied, answer, torn,
                   requests, crashes>>

\* What was printed gets into the file.
CloseFile ==
    /\ open
    /\ Write(Head(todo), <<Content(Head(todo), saveDev)>>)
    /\ torn' = torn \ {Head(todo)}
    /\ open' = FALSE
    /\ todo' = Tail(todo)
    /\ UNCHANGED <<device, saveDev, status, known, applied, answer, requests, crashes>>

Configured(i) ==
    IF i = "eth.sh" THEN files["eth"] ELSE files["wlan"] \o files["script"]

\* Mutant of RunScript: the status is that of the last script.
RunScriptLast ==
    /\ todo # <<>> /\ Head(todo) \in Scripts
    /\ \/ applied' = [applied EXCEPT ![Head(todo)] = Configured(Head(todo))] /\ status' = 0
       \/ UNCHANGED applied /\ status' = 1
    /\ todo' = Tail(todo)
    /\ UNCHANGED <<files, disk, device, saveDev, open, known, answer, torn, requests,
                   crashes>>

\* system() waits for the script, which configures the interface, or fails.
RunScript ==
    /\ todo # <<>> /\ Head(todo) \in Scripts
    /\ \/ applied' = [applied EXCEPT ![Head(todo)] = Configured(Head(todo))] /\ UNCHANGED status
       \/ UNCHANGED applied /\ status' = 1
    /\ todo' = Tail(todo)
    /\ UNCHANGED <<files, disk, device, saveDev, open, known, answer, torn, requests,
                   crashes>>

Answer ==
    /\ todo = <<"answer">>
    /\ answer' = status
    /\ todo' = <<>>
    /\ UNCHANGED <<files, disk, device, saveDev, open, status, known, applied, torn,
                   requests, crashes>>

\* The gateway fails and starts again (external); each file has one of the
\* contents the disk may have got.  An fopen that fails ends the program, too,
\* and changes no file.
Crash ==
    /\ crashes < MaxCrashes
    /\ files' \in [use : disk["use"], eth : disk["eth"], wlan : disk["wlan"],
                   sec : disk["sec"], script : disk["script"]]
    /\ disk' = [f \in File |-> {files'[f]}]
    /\ torn' = torn \union {f \in File : files'[f] # files[f] \/ \E k \in DOMAIN todo : todo[k] = f}
    /\ device' = Blank /\ saveDev' = Blank
    /\ todo' = <<>> /\ open' = FALSE /\ status' = 0
    /\ applied' = [i \in Scripts |-> <<>>] /\ answer' = -1
    /\ crashes' = crashes + 1
    /\ UNCHANGED <<known, requests>>

Next == Get \/ Set \/ SetShown \/ OpenFile \/ CloseFile \/ RunScript \/ Answer \/ Crash

Spec == Init /\ [][Next]_vars

-----------------------------------------------------------------------------
(* Properties.                                                             *)

\* The types of the variables; a file is open only while it is written.
TypeOK ==
    /\ \A f \in {"eth", "wlan"} :
         {files[f]} \union disk[f] \subseteq {<<>>} \union {<<a>> : a \in Addr}
    /\ device \in Settings /\ saveDev \in Settings
    /\ known # <<>> => known[1] \in Settings
    /\ todo \in Seq(File \union Scripts \union {"answer"})
    /\ (open => todo # <<>> /\ Head(todo) \in File /\ files[Head(todo)] = <<>>)
    /\ status \in 0 .. 1 /\ answer \in -1 .. 1
    /\ torn \subseteq File
    /\ requests \in 0 .. MaxRequests /\ crashes \in 0 .. MaxCrashes

\* A reply of success says that every interface the request has switched on
\* was configured with what the request asked for, whichever script ran last.
AnswerTrue ==
    answer = 0 =>
        /\ files["use"] = <<UseConfig(saveDev)>>
        /\ saveDev.lanOn => applied["eth.sh"] = <<NetworkConfig(saveDev.lan)>>
        /\ saveDev.wlanOn =>
             applied["wlan.sh"] = <<NetworkConfig(saveDev.wlan), SecurityScript(saveDev)>>

\* Between requests no file is empty, and the two files with the settings of
\* the radio agree, unless the gateway has failed while they were written and
\* nobody has set them again.
TornOnlyAfterCrash ==
    todo = <<>> =>
        /\ \A f \in File : files[f] = <<>> => f \in torn
        /\ files["sec"] = files["script"] \/ {"sec", "script"} \intersect torn # {}
        /\ torn # {} => crashes > 0

\* How well the radio is protected: by WPA, by WEP, not at all.
Rank(file) == IF file[1].mgmt = "WPA-PSK" THEN 2 ELSE IF file[1].key # <<>> THEN 1 ELSE 0

\* Settings sent back as they were shown, with no other request in between,
\* never protect the radio better: a key of WPA becomes one of WEP or none, and
\* a key of WEP is lost.
SentBackOnlyWeakens ==
    [][SetShown /\ known = <<Read(device)>> /\ files["script"] # <<>>
        => Rank(<<SecurityScript(saveDev')>>) <= Rank(files["script"])]_vars
=============================================================================
