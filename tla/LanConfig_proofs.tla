-------------------------- MODULE LanConfig_proofs --------------------------
(***************************************************************************)
(* What the configuration server guarantees for every set of settings that *)
(* operators may enter, every set of addresses and any number of requests  *)
(* and failures of the gateway.                                            *)
(***************************************************************************)
EXTENDS LanConfig, SequenceTheorems, TLAPS

-----------------------------------------------------------------------------
(* What is printed and read.                                               *)

LEMMA PrintedType ==
    ASSUME NEW value \in Value, NEW behind PROVE Printed(value, behind) \in Value
  BY DEF Printed, Value

LEMMA KeyLineType ==
    ASSUME NEW s \in Settings
    PROVE  KeyLine(s) = <<>> \/ \E v \in Value : KeyLine(s) = <<v>>
<1>1. s.psk \in Value /\ s.wep \in [{3, 4} -> Value]
  BY DEF Settings
<1>2. CASE s.mgmt = 1 /\ s.group \in {3, 4}
  <2>1. s.wep[s.group] \in Value
    BY <1>1, <1>2
  <2>2. KeyLine(s) = <<Printed(s.wep[s.group], FALSE)>>
    BY <1>2 DEF KeyLine, Printed
  <2> QED
    BY <2>1, <2>2, PrintedType
<1>3. CASE s.mgmt = 2
  <2>1. KeyLine(s) = <<Printed(s.psk, s.lanOn)>>
    BY <1>3 DEF KeyLine
  <2> QED
    BY <1>1, <2>1, PrintedType
<1>4. CASE ~(s.mgmt = 1 /\ s.group \in {3, 4}) /\ s.mgmt # 2
  BY <1>4 DEF KeyLine
<1> QED
  BY <1>2, <1>3, <1>4

\* The lines of the radio's files: both files get the same, and a group is
\* only named where the radio is not protected by WPA.
LEMMA SecurityType ==
    ASSUME NEW s \in Settings
    PROVE  /\ SecurityScript(s) = SecurityConfig(s)
           /\ SecurityConfig(s).name \in Value
           /\ SecurityConfig(s).mgmt \in {"WPA-PSK", "NONE"}
           /\ SecurityConfig(s).group \in {0, 3, 4}
           /\ SecurityConfig(s).mgmt = "WPA-PSK" => SecurityConfig(s).group = 0
           /\ \/ SecurityConfig(s).key = <<>>
              \/ \E v \in Value : SecurityConfig(s).key = <<v>>
<1>1. s.name \in Value /\ s.group \in {0, 3, 4} /\ s.mgmt \in 0 .. 2
  BY DEF Settings
<1>2. Printed(s.name, s.mgmt # 0) \in Value
  BY <1>1, PrintedType
<1>3. SecurityConfig(s).key = KeyLine(s)
  BY DEF SecurityConfig
<1> HIDE DEF KeyLine, Printed
<1> QED
  BY <1>1, <1>2, <1>3, KeyLineType DEF SecurityConfig, SecurityScript

\* What the settings become when the file of the radio is read: whoever was
\* protected by WPA is now said to be protected by WEP, the others by nothing.
LEMMA ReadSecurityType ==
    ASSUME NEW d \in Settings, NEW file,
           file = <<>> \/ \E s \in Settings : file = <<SecurityConfig(s)>>
    PROVE  /\ ReadSecurity(file, d) \in Settings
           /\ file = <<>> => ReadSecurity(file, d) = d
           /\ file # <<>> =>
                /\ ReadSecurity(file, d).mgmt = KeyMgmt(file[1].mgmt)
                /\ file[1].mgmt = "WPA-PSK" => ReadSecurity(file, d).group = d.group
<1>1. CASE file = <<>>
  BY <1>1 DEF ReadSecurity
<1>2. CASE file # <<>>
  <2>1. PICK s \in Settings : file = <<SecurityConfig(s)>>
    BY <1>2
  <2> DEFINE lines == file[1]
             group == IF lines.group # 0 THEN lines.group ELSE d.group
             name  == IF lines.name = "overrun" THEN "full" ELSE lines.name
             wep   == IF lines.key # <<>> /\ group # 0
                      THEN [d.wep EXCEPT ![group] = lines.key[1]] ELSE d.wep
  <2>2. /\ lines.name \in Value /\ lines.group \in {0, 3, 4}
        /\ lines.mgmt = "WPA-PSK" => lines.group = 0
        /\ lines.key = <<>> \/ \E v \in Value : lines.key = <<v>>
    BY <2>1, SecurityType
  <2>3. name \in Value /\ group \in {0, 3, 4} /\ KeyMgmt(lines.mgmt) \in 0 .. 2
    BY <2>2 DEF Value, Settings, KeyMgmt
  <2>4. wep \in [{3, 4} -> Value]
    BY <2>2, <2>3 DEF Settings
  <2>5. ReadSecurity(file, d)
          = [d EXCEPT !.name = name, !.mgmt = KeyMgmt(lines.mgmt), !.group = group, !.wep = wep]
    BY <1>2 DEF ReadSecurity
  <2>6. lines.mgmt = "WPA-PSK" => group = d.group
    BY <2>2
  <2> HIDE DEF lines, name, group, wep
  <2>7. ReadSecurity(file, d) \in Settings
    BY <2>3, <2>4, <2>5 DEF Settings
  <2>8. ReadSecurity(file, d).mgmt = KeyMgmt(lines.mgmt) /\ ReadSecurity(file, d).group = group
    BY <2>5 DEF Settings
  <2> QED
    BY <1>2, <2>6, <2>7, <2>8 DEF lines
<1> QED
  BY <1>1, <1>2

-----------------------------------------------------------------------------
(* The steps of a request.                                                 *)

\* The steps that t holds.
StepsIn(t) == {t[k] : k \in DOMAIN t}

\* Where the part of a request stands that sets up the radio.
RadioSteps ==
    {<<"answer">>,
     <<"wlan.sh", "answer">>,
     <<"script", "wlan.sh", "answer">>,
     <<"sec", "script", "wlan.sh", "answer">>,
     <<"wlan", "sec", "script", "wlan.sh", "answer">>}

\* What may be left of the steps of a request with settings s.
Ahead(s) ==
    CASE s.lanOn /\ s.wlanOn ->
           RadioSteps \union
           {<<"eth.sh", "wlan", "sec", "script", "wlan.sh", "answer">>,
            <<"eth", "eth.sh", "wlan", "sec", "script", "wlan.sh", "answer">>,
            <<"use", "eth", "eth.sh", "wlan", "sec", "script", "wlan.sh", "answer">>}
      [] s.lanOn /\ ~s.wlanOn ->
           {<<"answer">>, <<"eth.sh", "answer">>, <<"eth", "eth.sh", "answer">>,
            <<"use", "eth", "eth.sh", "answer">>}
      [] ~s.lanOn /\ s.wlanOn ->
           RadioSteps \union {<<"use", "wlan", "sec", "script", "wlan.sh", "answer">>}
      [] ~s.lanOn /\ ~s.wlanOn ->
           {<<"answer">>, <<"use", "answer">>}

\* The files a request with settings s writes, the scripts it runs.
FilesOf(s) ==
    {"use"} \union (IF s.lanOn THEN {"eth"} ELSE {})
            \union (IF s.wlanOn THEN {"wlan", "sec", "script"} ELSE {})

ScriptsOf(s) == (IF s.lanOn THEN {"eth.sh"} ELSE {}) \union (IF s.wlanOn THEN {"wlan.sh"} ELSE {})

LEMMA StepsAhead ==
    ASSUME NEW s \in Settings
    PROVE  /\ Steps(s) \in Ahead(s)
           /\ StepsIn(Steps(s)) = FilesOf(s) \union ScriptsOf(s) \union {"answer"}
<1> DEFINE S == File \union Scripts \union {"answer"}
           u == <<"use">>
           a == <<"eth", "eth.sh">>
           b == <<"wlan", "sec", "script", "wlan.sh">>
           c == <<"answer">>
           ua == u \o a
           ub == u \o b
           uab == ua \o b
<1>1. s.lanOn \in BOOLEAN /\ s.wlanOn \in BOOLEAN
  BY DEF Settings
<1>u. u \in Seq(S)
  BY DEF File
<1>a. a \in Seq(S)
  BY DEF File, Scripts
<1>b. b \in Seq(S)
  BY DEF File, Scripts
<1>c. c \in Seq(S)
  BY DEF File, Scripts
<1>2. Len(u) = 1 /\ Len(a) = 2 /\ Len(b) = 4 /\ Len(c) = 1
  OBVIOUS
<1>3. /\ u[1] = "use" /\ a[1] = "eth" /\ a[2] = "eth.sh"
      /\ b[1] = "wlan" /\ b[2] = "sec" /\ b[3] = "script" /\ b[4] = "wlan.sh"
      /\ c[1] = "answer"
  OBVIOUS
<1> HIDE DEF S, u, a, b, c
<1>ua. ua \in Seq(S)
  BY <1>u, <1>a, ConcatProperties, Zenon
<1>4. /\ ua \in Seq(S) /\ Len(ua) = Len(u) + Len(a)
      /\ \A i \in 1 .. Len(u) + Len(a) :
           ua[i] = IF i <= Len(u) THEN u[i] ELSE a[i - Len(u)]
  BY <1>u, <1>a, ConcatProperties, Zenon
<1>ub. ub \in Seq(S)
  BY <1>u, <1>b, ConcatProperties, Zenon
<1>5. /\ ub \in Seq(S) /\ Len(ub) = Len(u) + Len(b)
      /\ \A i \in 1 .. Len(u) + Len(b) :
           ub[i] = IF i <= Len(u) THEN u[i] ELSE b[i - Len(u)]
  BY <1>u, <1>b, ConcatProperties, Zenon
<1> HIDE DEF ua, ub
<1>6. Len(ua) = 3 /\ Len(ub) = 5
  BY <1>2, <1>4, <1>5
<1>uab. uab \in Seq(S)
  BY <1>ua, <1>b, ConcatProperties, Zenon
<1>7. /\ uab \in Seq(S) /\ Len(uab) = Len(ua) + Len(b)
      /\ \A i \in 1 .. Len(ua) + Len(b) :
           uab[i] = IF i <= Len(ua) THEN ua[i] ELSE b[i - Len(ua)]
  BY <1>ua, <1>b, ConcatProperties, Zenon
<1> HIDE DEF uab
<1>8. Len(uab) = 7
  BY <1>2, <1>6, <1>7
<1>9. /\ ua[1] = "use" /\ ua[2] = "eth" /\ ua[3] = "eth.sh"
  BY <1>2, <1>3, <1>4
<1>10. /\ ub[1] = "use" /\ ub[2] = "wlan" /\ ub[3] = "sec" /\ ub[4] = "script"
       /\ ub[5] = "wlan.sh"
  BY <1>2, <1>3, <1>5
<1>11. /\ uab[1] = "use" /\ uab[2] = "eth" /\ uab[3] = "eth.sh" /\ uab[4] = "wlan"
       /\ uab[5] = "sec" /\ uab[6] = "script" /\ uab[7] = "wlan.sh"
  BY <1>2, <1>3, <1>6, <1>7, <1>9
<1>12. u \o <<>> = u /\ ua \o <<>> = ua
  BY <1>u, <1>ua, ConcatEmptySeq, Zenon
<1>13. CASE s.lanOn /\ s.wlanOn
  <2> DEFINE y == uab \o c
  <2>1. /\ y \in Seq(S) /\ Len(y) = Len(uab) + Len(c)
        /\ \A i \in 1 .. Len(uab) + Len(c) :
             y[i] = IF i <= Len(uab) THEN uab[i] ELSE c[i - Len(uab)]
    BY <1>uab, <1>c, ConcatProperties, Zenon
  <2> HIDE DEF y
  <2>2. /\ y[1] = "use" /\ y[2] = "eth" /\ y[3] = "eth.sh" /\ y[4] = "wlan"
        /\ y[5] = "sec" /\ y[6] = "script" /\ y[7] = "wlan.sh" /\ y[8] = "answer"
    BY <1>2, <1>3, <1>6, <1>8, <2>1, <1>11
  <2>3. Steps(s) = y
    BY <1>13, <1>12 DEF Steps, y, u, a, b, c, ua, ub, uab
  <2>4. y = <<"use", "eth", "eth.sh", "wlan", "sec", "script", "wlan.sh", "answer">>
    BY <1>2, <1>6, <1>8, <2>1, <2>2
  <2>5. Steps(s) \in Ahead(s)
    BY <1>13, <2>3, <2>4 DEF Ahead, RadioSteps
  <2>6. StepsIn(y) = {"use", "eth", "eth.sh", "wlan", "sec", "script", "wlan.sh", "answer"}
    BY <2>4 DEF StepsIn
  <2> QED
    BY <1>13, <2>3, <2>5, <2>6 DEF FilesOf, ScriptsOf
<1>14. CASE s.lanOn /\ ~s.wlanOn
  <2> DEFINE y == ua \o c
  <2>1. /\ y \in Seq(S) /\ Len(y) = Len(ua) + Len(c)
        /\ \A i \in 1 .. Len(ua) + Len(c) :
             y[i] = IF i <= Len(ua) THEN ua[i] ELSE c[i - Len(ua)]
    BY <1>ua, <1>c, ConcatProperties, Zenon
  <2> HIDE DEF y
  <2>2. /\ y[1] = "use" /\ y[2] = "eth" /\ y[3] = "eth.sh" /\ y[4] = "answer"
    BY <1>2, <1>3, <1>6, <1>8, <2>1, <1>9
  <2>3. Steps(s) = y
    BY <1>14, <1>12 DEF Steps, y, u, a, b, c, ua, ub, uab
  <2>4. y = <<"use", "eth", "eth.sh", "answer">>
    BY <1>2, <1>6, <1>8, <2>1, <2>2
  <2>5. Steps(s) \in Ahead(s)
    BY <1>14, <2>3, <2>4 DEF Ahead, RadioSteps
  <2>6. StepsIn(y) = {"use", "eth", "eth.sh", "answer"}
    BY <2>4 DEF StepsIn
  <2> QED
    BY <1>14, <2>3, <2>5, <2>6 DEF FilesOf, ScriptsOf
<1>15. CASE ~s.lanOn /\ s.wlanOn
  <2> DEFINE y == ub \o c
  <2>1. /\ y \in Seq(S) /\ Len(y) = Len(ub) + Len(c)
        /\ \A i \in 1 .. Len(ub) + Len(c) :
             y[i] = IF i <= Len(ub) THEN ub[i] ELSE c[i - Len(ub)]
    BY <1>ub, <1>c, ConcatProperties, Zenon
  <2> HIDE DEF y
  <2>2. /\ y[1] = "use" /\ y[2] = "wlan" /\ y[3] = "sec" /\ y[4] = "script"
        /\ y[5] = "wlan.sh" /\ y[6] = "answer"
    BY <1>2, <1>3, <1>6, <1>8, <2>1, <1>10
  <2>3. Steps(s) = y
    BY <1>15, <1>12 DEF Steps, y, u, a, b, c, ua, ub, uab
  <2>4. y = <<"use", "wlan", "sec", "script", "wlan.sh", "answer">>
    BY <1>2, <1>6, <1>8, <2>1, <2>2
  <2>5. Steps(s) \in Ahead(s)
    BY <1>15, <2>3, <2>4 DEF Ahead, RadioSteps
  <2>6. StepsIn(y) = {"use", "wlan", "sec", "script", "wlan.sh", "answer"}
    BY <2>4 DEF StepsIn
  <2> QED
    BY <1>15, <2>3, <2>5, <2>6 DEF FilesOf, ScriptsOf
<1>16. CASE ~s.lanOn /\ ~s.wlanOn
  <2> DEFINE y == u \o c
  <2>1. /\ y \in Seq(S) /\ Len(y) = Len(u) + Len(c)
        /\ \A i \in 1 .. Len(u) + Len(c) :
             y[i] = IF i <= Len(u) THEN u[i] ELSE c[i - Len(u)]
    BY <1>u, <1>c, ConcatProperties, Zenon
  <2> HIDE DEF y
  <2>2. /\ y[1] = "use" /\ y[2] = "answer"
    BY <1>2, <1>3, <1>6, <1>8, <2>1
  <2>3. Steps(s) = y
    BY <1>16, <1>12 DEF Steps, y, u, a, b, c, ua, ub, uab
  <2>4. y = <<"use", "answer">>
    BY <1>2, <1>6, <1>8, <2>1, <2>2
  <2>5. Steps(s) \in Ahead(s)
    BY <1>16, <2>3, <2>4 DEF Ahead, RadioSteps
  <2>6. StepsIn(y) = {"use", "answer"}
    BY <2>4 DEF StepsIn
  <2> QED
    BY <1>16, <2>3, <2>5, <2>6 DEF FilesOf, ScriptsOf
<1> QED
  BY <1>1, <1>13, <1>14, <1>15, <1>16

\* The first step is done and leaves the others.  A script runs when the files
\* it reads are written, and the file of wpa_supplicant is written last.
Ordered(t) ==
    /\ t # <<>>
    /\ Head(t) = "answer" <=> t = <<"answer">>
    /\ StepsIn(t) = StepsIn(Tail(t)) \union {Head(t)}
    /\ Head(t) \notin StepsIn(Tail(t))
    /\ Head(t) = "eth.sh" => "eth" \notin StepsIn(t)
    /\ Head(t) = "wlan.sh" => "wlan" \notin StepsIn(t) /\ "script" \notin StepsIn(t)
    /\ Head(t) = "script" => "sec" \notin StepsIn(t)
    /\ "sec" \in StepsIn(t) => "script" \in StepsIn(t)

LEMMA NextStep ==
    ASSUME NEW s \in Settings, NEW t \in Ahead(s)
    PROVE  /\ Ordered(t)
           /\ Tail(t) = <<>> \/ Tail(t) \in Ahead(s)
           /\ Head(t) \in FilesOf(s) \union ScriptsOf(s) \union {"answer"}
           /\ t \in Seq(File \union Scripts \union {"answer"})
<1>1. CASE t = <<"answer">>
  <2>1. StepsIn(t) = {"answer"} /\ StepsIn(Tail(t)) = {}
    BY <1>1 DEF StepsIn
  <2>2. Head(t) = "answer" /\ Tail(t) = <<>>
    BY <1>1
  <2>3. t \in Seq(File \union Scripts \union {"answer"})
    BY <1>1 DEF File, Scripts
  <2> QED
    BY <1>1, <2>1, <2>2, <2>3 DEF Ordered, Ahead, RadioSteps, FilesOf, ScriptsOf
<1>2. CASE t = <<"wlan.sh", "answer">>
  <2>1. StepsIn(t) = {"wlan.sh", "answer"} /\ StepsIn(Tail(t)) = {"answer"}
    BY <1>2 DEF StepsIn
  <2>2. Head(t) = "wlan.sh" /\ Tail(t) = <<"answer">>
    BY <1>2
  <2>3. t \in Seq(File \union Scripts \union {"answer"})
    BY <1>2 DEF File, Scripts
  <2> QED
    BY <1>2, <2>1, <2>2, <2>3 DEF Ordered, Ahead, RadioSteps, FilesOf, ScriptsOf
<1>3. CASE t = <<"script", "wlan.sh", "answer">>
  <2>1. StepsIn(t) = {"script", "wlan.sh", "answer"} /\ StepsIn(Tail(t)) = {"wlan.sh", "answer"}
    BY <1>3 DEF StepsIn
  <2>2. Head(t) = "script" /\ Tail(t) = <<"wlan.sh", "answer">>
    BY <1>3
  <2>3. t \in Seq(File \union Scripts \union {"answer"})
    BY <1>3 DEF File, Scripts
  <2> QED
    BY <1>3, <2>1, <2>2, <2>3 DEF Ordered, Ahead, RadioSteps, FilesOf, ScriptsOf
<1>4. CASE t = <<"sec", "script", "wlan.sh", "answer">>
  <2>1. StepsIn(t) = {"sec", "script", "wlan.sh", "answer"} /\ StepsIn(Tail(t)) = {"script", "wlan.sh", "answer"}
    BY <1>4 DEF StepsIn
  <2>2. Head(t) = "sec" /\ Tail(t) = <<"script", "wlan.sh", "answer">>
    BY <1>4
  <2>3. t \in Seq(File \union Scripts \union {"answer"})
    BY <1>4 DEF File, Scripts
  <2> QED
    BY <1>4, <2>1, <2>2, <2>3 DEF Ordered, Ahead, RadioSteps, FilesOf, ScriptsOf
<1>5. CASE t = <<"wlan", "sec", "script", "wlan.sh", "answer">>
  <2>1. StepsIn(t) = {"wlan", "sec", "script", "wlan.sh", "answer"} /\ StepsIn(Tail(t)) = {"sec", "script", "wlan.sh", "answer"}
    BY <1>5 DEF StepsIn
  <2>2. Head(t) = "wlan" /\ Tail(t) = <<"sec", "script", "wlan.sh", "answer">>
    BY <1>5
  <2>3. t \in Seq(File \union Scripts \union {"answer"})
    BY <1>5 DEF File, Scripts
  <2> QED
    BY <1>5, <2>1, <2>2, <2>3 DEF Ordered, Ahead, RadioSteps, FilesOf, ScriptsOf
<1>6. CASE t = <<"eth.sh", "wlan", "sec", "script", "wlan.sh", "answer">>
  <2>1. StepsIn(t) = {"eth.sh", "wlan", "sec", "script", "wlan.sh", "answer"} /\ StepsIn(Tail(t)) = {"wlan", "sec", "script", "wlan.sh", "answer"}
    BY <1>6 DEF StepsIn
  <2>2. Head(t) = "eth.sh" /\ Tail(t) = <<"wlan", "sec", "script", "wlan.sh", "answer">>
    BY <1>6
  <2>3. t \in Seq(File \union Scripts \union {"answer"})
    BY <1>6 DEF File, Scripts
  <2> QED
    BY <1>6, <2>1, <2>2, <2>3 DEF Ordered, Ahead, RadioSteps, FilesOf, ScriptsOf
<1>7. CASE t = <<"eth", "eth.sh", "wlan", "sec", "script", "wlan.sh", "answer">>
  <2>1. StepsIn(t) = {"eth", "eth.sh", "wlan", "sec", "script", "wlan.sh", "answer"} /\ StepsIn(Tail(t)) = {"eth.sh", "wlan", "sec", "script", "wlan.sh", "answer"}
    BY <1>7 DEF StepsIn
  <2>2. Head(t) = "eth" /\ Tail(t) = <<"eth.sh", "wlan", "sec", "script", "wlan.sh", "answer">>
    BY <1>7
  <2>3. t \in Seq(File \union Scripts \union {"answer"})
    BY <1>7 DEF File, Scripts
  <2> QED
    BY <1>7, <2>1, <2>2, <2>3 DEF Ordered, Ahead, RadioSteps, FilesOf, ScriptsOf
<1>8. CASE t = <<"use", "eth", "eth.sh", "wlan", "sec", "script", "wlan.sh", "answer">>
  <2>1. StepsIn(t) = {"use", "eth", "eth.sh", "wlan", "sec", "script", "wlan.sh", "answer"} /\ StepsIn(Tail(t)) = {"eth", "eth.sh", "wlan", "sec", "script", "wlan.sh", "answer"}
    BY <1>8 DEF StepsIn
  <2>2. Head(t) = "use" /\ Tail(t) = <<"eth", "eth.sh", "wlan", "sec", "script", "wlan.sh", "answer">>
    BY <1>8
  <2>3. t \in Seq(File \union Scripts \union {"answer"})
    BY <1>8 DEF File, Scripts
  <2> QED
    BY <1>8, <2>1, <2>2, <2>3 DEF Ordered, Ahead, RadioSteps, FilesOf, ScriptsOf
<1>9. CASE t = <<"eth.sh", "answer">>
  <2>1. StepsIn(t) = {"eth.sh", "answer"} /\ StepsIn(Tail(t)) = {"answer"}
    BY <1>9 DEF StepsIn
  <2>2. Head(t) = "eth.sh" /\ Tail(t) = <<"answer">>
    BY <1>9
  <2>3. t \in Seq(File \union Scripts \union {"answer"})
    BY <1>9 DEF File, Scripts
  <2> QED
    BY <1>9, <2>1, <2>2, <2>3 DEF Ordered, Ahead, RadioSteps, FilesOf, ScriptsOf
<1>10. CASE t = <<"eth", "eth.sh", "answer">>
  <2>1. StepsIn(t) = {"eth", "eth.sh", "answer"} /\ StepsIn(Tail(t)) = {"eth.sh", "answer"}
    BY <1>10 DEF StepsIn
  <2>2. Head(t) = "eth" /\ Tail(t) = <<"eth.sh", "answer">>
    BY <1>10
  <2>3. t \in Seq(File \union Scripts \union {"answer"})
    BY <1>10 DEF File, Scripts
  <2> QED
    BY <1>10, <2>1, <2>2, <2>3 DEF Ordered, Ahead, RadioSteps, FilesOf, ScriptsOf
<1>11. CASE t = <<"use", "eth", "eth.sh", "answer">>
  <2>1. StepsIn(t) = {"use", "eth", "eth.sh", "answer"} /\ StepsIn(Tail(t)) = {"eth", "eth.sh", "answer"}
    BY <1>11 DEF StepsIn
  <2>2. Head(t) = "use" /\ Tail(t) = <<"eth", "eth.sh", "answer">>
    BY <1>11
  <2>3. t \in Seq(File \union Scripts \union {"answer"})
    BY <1>11 DEF File, Scripts
  <2> QED
    BY <1>11, <2>1, <2>2, <2>3 DEF Ordered, Ahead, RadioSteps, FilesOf, ScriptsOf
<1>12. CASE t = <<"use", "wlan", "sec", "script", "wlan.sh", "answer">>
  <2>1. StepsIn(t) = {"use", "wlan", "sec", "script", "wlan.sh", "answer"} /\ StepsIn(Tail(t)) = {"wlan", "sec", "script", "wlan.sh", "answer"}
    BY <1>12 DEF StepsIn
  <2>2. Head(t) = "use" /\ Tail(t) = <<"wlan", "sec", "script", "wlan.sh", "answer">>
    BY <1>12
  <2>3. t \in Seq(File \union Scripts \union {"answer"})
    BY <1>12 DEF File, Scripts
  <2> QED
    BY <1>12, <2>1, <2>2, <2>3 DEF Ordered, Ahead, RadioSteps, FilesOf, ScriptsOf
<1>13. CASE t = <<"use", "answer">>
  <2>1. StepsIn(t) = {"use", "answer"} /\ StepsIn(Tail(t)) = {"answer"}
    BY <1>13 DEF StepsIn
  <2>2. Head(t) = "use" /\ Tail(t) = <<"answer">>
    BY <1>13
  <2>3. t \in Seq(File \union Scripts \union {"answer"})
    BY <1>13 DEF File, Scripts
  <2> QED
    BY <1>13, <2>1, <2>2, <2>3 DEF Ordered, Ahead, RadioSteps, FilesOf, ScriptsOf
<1> QED
  BY <1>1, <1>2, <1>3, <1>4, <1>5, <1>6, <1>7, <1>8, <1>9, <1>10, <1>11, <1>12, <1>13 DEF Ahead, RadioSteps, Settings

-----------------------------------------------------------------------------
(* The invariant.                                                          *)

\* A file holds the settings of some request, or it was opened for writing.
FileInv ==
    /\ DOMAIN files = File
    /\ \A f \in File : files[f] = <<>> \/ \E s \in Settings : files[f] = <<Content(f, s)>>

\* The first step of a request that is not done writes the open file.
PlanInv ==
    /\ saveDev \in Settings
    /\ todo = <<>> \/ todo \in Ahead(saveDev)
    /\ open => todo # <<>> /\ Head(todo) \in File /\ files[Head(todo)] = <<>>

ValueInv ==
    /\ device \in Settings /\ device.mgmt \in 0 .. 1
    /\ known = <<>> \/ \E d \in Settings : known = <<d>>
    /\ DOMAIN applied = Scripts
    /\ status \in 0 .. 1 /\ answer \in -1 .. 1
    /\ torn \subseteq File
    /\ requests \in 0 .. MaxRequests /\ crashes \in 0 .. MaxCrashes

\* What a request has done so far, while it is done and after its reply.
DoneInv ==
    todo # <<>> \/ answer = 0 =>
        /\ \A f \in FilesOf(saveDev) \ StepsIn(todo) : files[f] = <<Content(f, saveDev)>>
        /\ saveDev.lanOn /\ "eth.sh" \notin StepsIn(todo) /\ status = 0 =>
             applied["eth.sh"] = <<NetworkConfig(saveDev.lan)>>
        /\ saveDev.wlanOn /\ "wlan.sh" \notin StepsIn(todo) /\ status = 0 =>
             applied["wlan.sh"] = <<NetworkConfig(saveDev.wlan), SecurityScript(saveDev)>>

AnswerInv == /\ todo # <<>> => answer = -1
             /\ answer = 0 => status = 0

\* An empty file is being written, or its request was interrupted; the files of
\* the radio differ only then.
TornInv ==
    /\ \A f \in File : files[f] = <<>> => f \in torn \/ (open /\ f = Head(todo))
    /\ \/ files["sec"] = files["script"]
       \/ "script" \in torn
       \/ "sec" \in torn \/ "script" \in StepsIn(todo)
    /\ torn # {} => crashes > 0

\* Read from the file sec, the settings name no protection: WPA is taken for WEP
\* and no group was read, or the file says so itself.
ReadsUnprotected ==
    IF files["sec"] = <<>> THEN device.mgmt = 0
    ELSE files["sec"][1].mgmt = "WPA-PSK" => device.group = 0

\* A failure in the middle of a request, after which the files of the radio may
\* differ, also makes the server forget what it has read.
RadioInv ==
    files["sec"] = files["script"] \/ "script" \in StepsIn(todo) \/ ReadsUnprotected

\* What may be left of a file is what some settings print, or nothing.
DiskInv ==
    /\ DOMAIN disk = File
    /\ \A f \in File : \A c \in disk[f] :
         c = <<>> \/ \E s \in Settings : c = <<Content(f, s)>>

IInv == DiskInv /\ FileInv /\ PlanInv /\ ValueInv /\ DoneInv /\ AnswerInv /\ TornInv /\ RadioInv

LEMMA BlankType == Blank \in Settings /\ Blank.mgmt = 0 /\ Blank.group = 0
  BY LanConfigAssumption DEF Blank, Settings, Value

LEMMA InitIInv == Init => IInv
<1> SUFFICES ASSUME Init PROVE IInv
  OBVIOUS
<1>1. PICK s \in Settings : files = [f \in File |-> <<Content(f, s)>>]
  BY LanConfigAssumption DEF Init
<1>2. FileInv
  BY <1>1 DEF FileInv
<1>3. \A f \in File : files[f] # <<>>
  BY <1>1
<1>4. files["sec"] = files["script"]
  BY <1>1, SecurityType DEF Content, File
<1>5. TornInv /\ RadioInv
  BY <1>3, <1>4 DEF Init, TornInv, RadioInv
<1>6. PlanInv /\ ValueInv
  BY BlankType, LanConfigAssumption DEF Init, PlanInv, ValueInv
<1>7. DoneInv /\ AnswerInv
  BY DEF Init, DoneInv, AnswerInv
<1>8. DiskInv
  <2>1. disk = [f \in File |-> {files[f]}]
    BY DEF Init
  <2> QED
    BY <1>1, <2>1 DEF DiskInv
<1> QED
  BY <1>2, <1>5, <1>6, <1>7, <1>8 DEF IInv

\* What GETLANINFO reads are settings again.  Only the file sec decides how the
\* radio is said to be protected.
LEMMA ReadType ==
    ASSUME FileInv, NEW d \in Settings
    PROVE  /\ Read(d) \in Settings
           /\ files["sec"] = <<>> =>
                Read(d).mgmt = d.mgmt /\ Read(d).group = d.group
           /\ files["sec"] # <<>> =>
                /\ Read(d).mgmt = KeyMgmt(files["sec"][1].mgmt)
                /\ files["sec"][1].mgmt = "WPA-PSK" => Read(d).group = d.group
<1> DEFINE net == [d EXCEPT !.lan  = ReadNetwork(files["eth"], @),
                            !.wlan = ReadNetwork(files["wlan"], @)]
           sec == ReadSecurity(files["sec"], net)
<1>1. net \in Settings /\ net.mgmt = d.mgmt /\ net.group = d.group
  <2>1. \A f \in {"eth", "wlan"} : files[f] = <<>> \/ \E x \in Addr : files[f] = <<x>>
    BY LanConfigAssumption DEF FileInv, Content, NetworkConfig, File, Settings
  <2>2. ReadNetwork(files["eth"], d.lan) \in Addr /\ ReadNetwork(files["wlan"], d.wlan) \in Addr
    BY <2>1 DEF ReadNetwork, Settings
  <2> QED
    BY <2>2 DEF Settings
<1>2. files["sec"] = <<>> \/ \E s \in Settings : files["sec"] = <<SecurityConfig(s)>>
  BY DEF FileInv, Content, File
<1> HIDE DEF net
<1>3. /\ sec \in Settings
      /\ files["sec"] = <<>> => sec = net
      /\ files["sec"] # <<>> =>
           /\ sec.mgmt = KeyMgmt(files["sec"][1].mgmt)
           /\ files["sec"][1].mgmt = "WPA-PSK" => sec.group = net.group
  BY <1>1, <1>2, ReadSecurityType
<1> HIDE DEF sec
<1>4. ReadUse(sec) \in Settings /\ ReadUse(sec).mgmt = sec.mgmt /\ ReadUse(sec).group = sec.group
  <2>1. CASE files["use"] = <<>>
    BY <1>3, <2>1 DEF ReadUse
  <2>2. CASE files["use"] # <<>>
    <3>1. PICK s \in Settings : files["use"] = <<UseConfig(s)>>
      BY <2>2 DEF FileInv, Content, File
    <3> DEFINE lan == files["use"][1].lan
               wlan == files["use"][1].wlan
    <3>2. lan \in BOOLEAN /\ wlan \in BOOLEAN
      BY <3>1 DEF UseConfig, Settings
    <3>3. ReadUse(sec) = [sec EXCEPT !.lanOn = lan, !.wlanOn = wlan]
      BY <2>2 DEF ReadUse
    <3> HIDE DEF lan, wlan
    <3> QED
      BY <1>3, <3>2, <3>3 DEF Settings
  <2> QED
    BY <2>1, <2>2
<1>5. Read(d) = ReadUse(sec)
  BY DEF Read, sec, net
<1> QED
  BY <1>1, <1>3, <1>4, <1>5

LEMMA GetIInv == ASSUME IInv, Get PROVE IInv'
<1>1. /\ todo = <<>> /\ device' = Read(device) /\ known' = <<device'>>
      /\ UNCHANGED <<files, disk, saveDev, todo, open, status, applied, answer, torn, requests,
                     crashes>>
  BY DEF Get, stepVars
<1>2. /\ device' \in Settings
      /\ files["sec"] = <<>> => device'.mgmt = device.mgmt
      /\ files["sec"] # <<>> =>
           /\ device'.mgmt = KeyMgmt(files["sec"][1].mgmt)
           /\ files["sec"][1].mgmt = "WPA-PSK" => device'.group = device.group
  BY <1>1, ReadType DEF IInv, ValueInv
<1>3. DiskInv' /\ FileInv' /\ PlanInv' /\ DoneInv' /\ AnswerInv' /\ TornInv'
  BY <1>1 DEF IInv, DiskInv, FileInv, PlanInv, DoneInv, AnswerInv, TornInv
<1>4. ValueInv'
  BY <1>1, <1>2 DEF IInv, ValueInv, KeyMgmt
<1>5. RadioInv'
  BY <1>1, <1>2 DEF IInv, RadioInv, ReadsUnprotected
<1> QED
  BY <1>3, <1>4, <1>5 DEF IInv

\* A request starts with nothing done.
LEMMA RequestIInv == ASSUME IInv, NEW s \in Settings, Request(s) PROVE IInv'
<1>1. /\ todo = <<>> /\ saveDev' = s /\ todo' = Steps(s) /\ status' = 0 /\ answer' = -1
      /\ requests < MaxRequests /\ requests' = requests + 1
      /\ UNCHANGED <<files, disk, device, open, known, applied, torn, crashes>>
  BY DEF Request
<1>2. /\ todo' \in Ahead(saveDev') /\ todo' # <<>>
      /\ StepsIn(todo') = FilesOf(s) \union ScriptsOf(s) \union {"answer"}
  BY <1>1, StepsAhead, NextStep DEF Ordered
<1>3. ~open /\ StepsIn(todo) = {}
  BY <1>1 DEF IInv, PlanInv, StepsIn
<1>4. DiskInv' /\ FileInv' /\ PlanInv' /\ AnswerInv'
  BY <1>1, <1>2, <1>3 DEF IInv, DiskInv, FileInv, PlanInv, AnswerInv
<1>5. ValueInv'
  BY <1>1, LanConfigAssumption DEF IInv, ValueInv
<1>6. DoneInv'
  BY <1>1, <1>2 DEF DoneInv, ScriptsOf
<1>7. TornInv' /\ RadioInv'
  BY <1>1, <1>3 DEF IInv, TornInv, RadioInv, ReadsUnprotected
<1> QED
  BY <1>4, <1>5, <1>6, <1>7 DEF IInv

\* What the client was shown are settings, with the interfaces switched too.
LEMMA ShownType ==
    ASSUME IInv, known # <<>>, NEW lanOn \in BOOLEAN, NEW wlanOn \in BOOLEAN
    PROVE  [known[1] EXCEPT !.lanOn = lanOn, !.wlanOn = wlanOn] \in Settings
<1>1. known[1] \in Settings
  BY DEF IInv, ValueInv
<1> QED
  BY <1>1 DEF Settings

\* What is written is one more content a failure may leave.
LEMMA WriteDisk ==
    ASSUME DiskInv, NEW g \in File, NEW c, Write(g, c),
           c = <<>> \/ \E s \in Settings : c = <<Content(g, s)>>
    PROVE  DiskInv'
<1>1. disk' = [disk EXCEPT ![g] = @ \union {c}] /\ DOMAIN disk = File
  BY DEF DiskInv, Write
<1>2. \A f \in File : disk'[f] = IF f = g THEN disk[f] \union {c} ELSE disk[f]
  BY <1>1
<1> QED
  BY <1>1, <1>2 DEF DiskInv

LEMMA OpenFileIInv == ASSUME IInv, OpenFile PROVE IInv'
<1> DEFINE g == Head(todo)
<1>1. /\ todo # <<>> /\ g \in File /\ ~open /\ open'
      /\ files' = [files EXCEPT ![g] = <<>>]
      /\ UNCHANGED <<device, saveDev, todo, status, known, applied, answer, torn,
                     requests, crashes>>
      /\ Write(g, <<>>)
  BY DEF OpenFile, Write
<1>2. todo \in Ahead(saveDev) /\ saveDev \in Settings /\ DOMAIN files = File
  BY <1>1 DEF IInv, PlanInv, FileInv
<1>3. g \in StepsIn(todo) /\ ("sec" \in StepsIn(todo) => "script" \in StepsIn(todo))
  BY <1>2, NextStep DEF Ordered
<1>4. \A f \in File : files'[f] = IF f = g THEN <<>> ELSE files[f]
  BY <1>1, <1>2
<1>5. DiskInv' /\ FileInv' /\ PlanInv'
  <2>1. DiskInv'
    BY <1>1, WriteDisk DEF IInv
  <2> QED
    BY <1>1, <1>2, <1>4, <2>1 DEF IInv, FileInv, PlanInv
<1>6. ValueInv' /\ AnswerInv'
  BY <1>1 DEF IInv, ValueInv, AnswerInv
<1>7. DoneInv'
  <2>1. \A f \in FilesOf(saveDev) \ StepsIn(todo) : f \in File /\ f # g
    BY <1>3 DEF FilesOf, File
  <2> QED
    BY <1>1, <1>4, <2>1 DEF IInv, DoneInv
<1>8. /\ "sec" \in File /\ "script" \in File
      /\ \/ files'["sec"] = files["sec"] /\ files'["script"] = files["script"]
         \/ "script" \in StepsIn(todo)
  BY <1>3, <1>4 DEF File
<1>9. TornInv'
  BY <1>1, <1>4, <1>8 DEF IInv, TornInv
<1>10. RadioInv'
  BY <1>1, <1>8 DEF IInv, RadioInv, ReadsUnprotected
<1> QED
  BY <1>5, <1>6, <1>7, <1>9, <1>10 DEF IInv

\* A file of the request gets its contents: the last of them, script, the same
\* as sec has.
LEMMA CloseFileIInv == ASSUME IInv, CloseFile PROVE IInv'
<1> DEFINE g == Head(todo)
<1>1. /\ open /\ open' = FALSE /\ todo' = Tail(todo) /\ torn' = torn \ {g}
      /\ files' = [files EXCEPT ![g] = <<Content(g, saveDev)>>]
      /\ UNCHANGED <<device, saveDev, status, known, applied, answer, requests, crashes>>
      /\ Write(g, <<Content(g, saveDev)>>)
  BY DEF CloseFile, Write
<1>2. /\ todo \in Ahead(saveDev) /\ todo # <<>> /\ saveDev \in Settings
      /\ DOMAIN files = File /\ g \in File
  BY <1>1 DEF IInv, PlanInv, FileInv
<1>3. /\ StepsIn(todo) = StepsIn(todo') \union {g} /\ g \notin StepsIn(todo')
      /\ todo' = <<>> \/ todo' \in Ahead(saveDev)
      /\ "sec" \in StepsIn(todo) => "script" \in StepsIn(todo)
      /\ g = "script" => "sec" \notin StepsIn(todo)
      /\ g \in FilesOf(saveDev) \union ScriptsOf(saveDev) \union {"answer"}
  BY <1>1, <1>2, NextStep DEF Ordered
<1>4. g \in FilesOf(saveDev)
  BY <1>2, <1>3 DEF File, ScriptsOf
<1> HIDE DEF g
<1>5. \A f \in File : files'[f] = IF f = g THEN <<Content(f, saveDev)>> ELSE files[f]
  BY <1>1, <1>2
<1>6. DiskInv' /\ FileInv' /\ PlanInv'
  <2>1. DiskInv'
    BY <1>1, <1>2, WriteDisk DEF IInv
  <2> QED
    BY <1>1, <1>2, <1>3, <1>5, <2>1 DEF IInv, FileInv, PlanInv
<1>7. ValueInv' /\ AnswerInv'
  BY <1>1, <1>2 DEF IInv, ValueInv, AnswerInv
<1>8. FilesOf(saveDev) \subseteq File
  BY DEF FilesOf, File
<1>9. DoneInv'
  <2>1. answer # 0
    BY <1>2 DEF IInv, AnswerInv
  <2>2. \A f \in FilesOf(saveDev) \ StepsIn(todo') : files'[f] = <<Content(f, saveDev)>>
    BY <1>2, <1>3, <1>5, <1>8 DEF IInv, DoneInv
  <2>3. \A i \in Scripts : i \in StepsIn(todo) <=> i \in StepsIn(todo')
    BY <1>2, <1>3 DEF File, Scripts
  <2> QED
    BY <1>1, <1>2, <2>1, <2>2, <2>3 DEF IInv, DoneInv, Scripts
<1>10. \/ files'["sec"] = files'["script"]
       \/ "script" \in StepsIn(todo')
       \/ UNCHANGED <<files["sec"], files["script"]>> /\ g # "script" /\ g # "sec"
  <2>1. CASE g = "script"
    <3>1. "sec" \in FilesOf(saveDev) \ StepsIn(todo)
      BY <1>3, <1>4, <2>1 DEF FilesOf
    <3>2. files["sec"] = <<SecurityConfig(saveDev)>>
      BY <1>2, <1>3, <2>1, <3>1 DEF IInv, DoneInv, Content
    <3>3. files'["sec"] = files["sec"] /\ files'["script"] = <<SecurityScript(saveDev)>>
      BY <1>5, <2>1 DEF File, Content
    <3> QED
      BY <1>2, <3>2, <3>3, SecurityType
  <2>2. CASE g = "sec"
    BY <1>3, <2>2
  <2>3. CASE g # "sec" /\ g # "script"
    BY <1>5, <2>3 DEF File
  <2> QED
    BY <2>1, <2>2, <2>3
<1>11. TornInv'
  <2>1. \A f \in File : files'[f] = <<>> => f \in torn'
    <3>1. \A f \in File : files[f] = <<>> => f \in torn \/ f = g
      BY DEF IInv, TornInv, g
    <3>2. torn' = torn \ {g}
      BY <1>1
    <3>3. <<Content(g, saveDev)>> # <<>>
      OBVIOUS
    <3> QED
      BY <1>5, <3>1, <3>2, <3>3
  <2>2. \/ files'["sec"] = files'["script"] \/ "script" \in torn' \/ "sec" \in torn'
        \/ "script" \in StepsIn(todo')
    BY <1>1, <1>3, <1>10 DEF IInv, TornInv
  <2> QED
    BY <1>1, <2>1, <2>2 DEF IInv, TornInv
<1>12. RadioInv'
  BY <1>1, <1>3, <1>10 DEF IInv, RadioInv, ReadsUnprotected
<1> QED
  BY <1>6, <1>7, <1>9, <1>11, <1>12 DEF IInv

LEMMA Pair == ASSUME NEW x, NEW y PROVE <<x>> \o <<y>> = <<x, y>>
<1> DEFINE S == {x, y}
           a == <<x>>
           b == <<y>>
           z == a \o b
<1>1. a \in Seq(S)
  OBVIOUS
<1>2. b \in Seq(S)
  OBVIOUS
<1>3. Len(a) = 1 /\ Len(b) = 1 /\ a[1] = x /\ b[1] = y
  OBVIOUS
<1> HIDE DEF S, a, b
<1>4. /\ z \in Seq(S) /\ Len(z) = Len(a) + Len(b)
      /\ \A i \in 1 .. Len(a) + Len(b) : z[i] = IF i <= Len(a) THEN a[i] ELSE b[i - Len(a)]
  BY <1>1, <1>2, ConcatProperties, Zenon
<1> HIDE DEF z
<1>5. Len(z) = 2 /\ z[1] = x /\ z[2] = y
  BY <1>3, <1>4
<1>6. z \in Seq(S)
  BY <1>4
<1>7. z = <<x, y>>
  BY <1>5, <1>6
<1> QED
  BY <1>7 DEF z, a, b

\* A script configures its interface with what the files hold, which is what
\* the request asked for, or its failure is remembered for the reply.
LEMMA RunScriptIInv == ASSUME IInv, RunScript PROVE IInv'
<1> DEFINE i == Head(todo)
<1>1. /\ todo # <<>> /\ i \in Scripts /\ todo' = Tail(todo)
      /\ \/ applied' = [applied EXCEPT ![i] = Configured(i)] /\ status' = status
         \/ applied' = applied /\ status' = 1
      /\ UNCHANGED <<files, disk, device, saveDev, open, known, answer, torn, requests, crashes>>
  BY DEF RunScript
<1>2. todo \in Ahead(saveDev) /\ saveDev \in Settings /\ DOMAIN applied = Scripts
  BY <1>1 DEF IInv, PlanInv, ValueInv
<1>3. /\ StepsIn(todo) = StepsIn(todo') \union {i}
      /\ todo' = <<>> \/ todo' \in Ahead(saveDev)
      /\ i = "eth.sh" => "eth" \notin StepsIn(todo)
      /\ i = "wlan.sh" => "wlan" \notin StepsIn(todo) /\ "script" \notin StepsIn(todo)
  BY <1>1, <1>2, NextStep DEF Ordered
<1> HIDE DEF i
<1>4. ~open
  BY <1>1 DEF IInv, PlanInv, Scripts, File, i
<1>5. DiskInv' /\ FileInv' /\ PlanInv'
  BY <1>1, <1>2, <1>3, <1>4 DEF IInv, DiskInv, FileInv, PlanInv
<1>6. ValueInv' /\ AnswerInv'
  BY <1>1 DEF IInv, ValueInv, AnswerInv
<1>7. \A f \in File : f \in StepsIn(todo) <=> f \in StepsIn(todo')
  BY <1>1, <1>3 DEF File, Scripts
<1>8. DoneInv'
  <2>1. answer # 0
    BY <1>1 DEF IInv, AnswerInv
  <2>2. \A f \in FilesOf(saveDev) \ StepsIn(todo') : files[f] = <<Content(f, saveDev)>>
    BY <1>1, <1>7 DEF IInv, DoneInv, FilesOf, File
  <2>3. ASSUME saveDev.lanOn, "eth.sh" \notin StepsIn(todo'), status' = 0
        PROVE  applied'["eth.sh"] = <<NetworkConfig(saveDev.lan)>>
    <3>1. CASE i = "eth.sh"
      <4>1. files["eth"] = <<NetworkConfig(saveDev.lan)>>
        BY <1>3, <1>7, <2>2, <2>3, <3>1 DEF FilesOf, File, Content
      <4> QED
        BY <1>1, <1>2, <2>3, <3>1, <4>1 DEF Configured, Scripts
    <3>2. CASE i # "eth.sh"
      <4>1. applied'["eth.sh"] = applied["eth.sh"] /\ "eth.sh" \notin StepsIn(todo) /\ status = 0
        BY <1>1, <1>2, <1>3, <2>3, <3>2 DEF Scripts
      <4> QED
        BY <1>1, <2>3, <4>1 DEF IInv, DoneInv
    <3> QED
      BY <3>1, <3>2
  <2>4. ASSUME saveDev.wlanOn, "wlan.sh" \notin StepsIn(todo'), status' = 0
        PROVE  applied'["wlan.sh"] = <<NetworkConfig(saveDev.wlan), SecurityScript(saveDev)>>
    <3>1. CASE i = "wlan.sh"
      <4>1. /\ files["wlan"] = <<NetworkConfig(saveDev.wlan)>>
            /\ files["script"] = <<SecurityScript(saveDev)>>
        BY <1>3, <1>7, <2>2, <2>4, <3>1 DEF FilesOf, File, Content
      <4>2. applied'["wlan.sh"] = files["wlan"] \o files["script"]
        <5>1. applied'["wlan.sh"] = Configured("wlan.sh")
          BY <1>1, <1>2, <2>4, <3>1 DEF Scripts
        <5> QED
          BY <5>1 DEF Configured
      <4> QED
        BY <4>1, <4>2, Pair
    <3>2. CASE i # "wlan.sh"
      <4>1. applied'["wlan.sh"] = applied["wlan.sh"] /\ "wlan.sh" \notin StepsIn(todo) /\ status = 0
        BY <1>1, <1>2, <1>3, <2>4, <3>2 DEF Scripts
      <4> QED
        BY <1>1, <2>4, <4>1 DEF IInv, DoneInv
    <3> QED
      BY <3>1, <3>2
  <2> QED
    BY <1>1, <2>2, <2>3, <2>4 DEF DoneInv
<1>9. TornInv' /\ RadioInv'
  BY <1>1, <1>4, <1>7 DEF IInv, TornInv, RadioInv, ReadsUnprotected, File
<1> QED
  BY <1>5, <1>6, <1>8, <1>9 DEF IInv

\* The reply is sent when nothing is left to be done.
LEMMA AnswerIInv == ASSUME IInv, Answer PROVE IInv'
<1>1. /\ todo = <<"answer">> /\ todo' = <<>> /\ answer' = status
      /\ UNCHANGED <<files, disk, device, saveDev, open, status, known, applied, torn, requests,
                     crashes>>
  BY DEF Answer
<1>2. StepsIn(todo) = {"answer"} /\ StepsIn(todo') = {} /\ todo # <<>> /\ Head(todo) = "answer"
  BY <1>1 DEF StepsIn
<1>3. ~open
  BY <1>2 DEF IInv, PlanInv, File
<1>4. DiskInv' /\ FileInv' /\ PlanInv' /\ ValueInv' /\ AnswerInv'
  BY <1>1, <1>3 DEF IInv, DiskInv, FileInv, PlanInv, ValueInv, AnswerInv
<1>5. DoneInv'
  BY <1>1, <1>2 DEF IInv, DoneInv, FilesOf
<1>6. TornInv' /\ RadioInv'
  BY <1>1, <1>2, <1>3 DEF IInv, TornInv, RadioInv, ReadsUnprotected
<1> QED
  BY <1>4, <1>5, <1>6 DEF IInv

\* A failure of the gateway: what was not written to the end, or did not get to
\* the disk, is remembered, in the history, as torn.
LEMMA CrashIInv == ASSUME IInv, Crash PROVE IInv'
<1>1. /\ crashes < MaxCrashes /\ crashes' = crashes + 1
      /\ torn' = torn \union {f \in File : files'[f] # files[f] \/ f \in StepsIn(todo)}
      /\ disk' = [f \in File |-> {files'[f]}]
      /\ device' = Blank /\ saveDev' = Blank /\ todo' = <<>> /\ open' = FALSE /\ status' = 0
      /\ applied' = [i \in Scripts |-> <<>>] /\ answer' = -1
      /\ UNCHANGED <<known, requests>>
      /\ files' \in [use : disk["use"], eth : disk["eth"], wlan : disk["wlan"],
                     sec : disk["sec"], script : disk["script"]]
  BY DEF Crash, StepsIn
<1>2. open => Head(todo) \in StepsIn(todo) /\ Head(todo) \in File
  BY NextStep DEF IInv, PlanInv, Ordered
<1>3. DOMAIN files' = File /\ \A f \in File : files'[f] \in disk[f]
  BY <1>1 DEF File
<1>4. DiskInv' /\ FileInv'
  BY <1>1, <1>3 DEF IInv, DiskInv, FileInv
<1>5. PlanInv' /\ DoneInv' /\ AnswerInv'
  BY <1>1, BlankType DEF IInv, PlanInv, DoneInv, AnswerInv
<1>6. ValueInv'
  BY <1>1, BlankType, LanConfigAssumption DEF IInv, ValueInv
<1>7. TornInv'
  <2>1. \A f \in File : f \notin torn' => files'[f] = files[f] /\ f \notin torn \union StepsIn(todo)
    BY <1>1
  <2>2. \A f \in File : files'[f] = <<>> => f \in torn'
    BY <1>2, <2>1 DEF IInv, TornInv
  <2>3. files'["sec"] = files'["script"] \/ "script" \in torn' \/ "sec" \in torn'
    BY <2>1 DEF IInv, TornInv, File
  <2>4. crashes' > 0
    BY <1>1, LanConfigAssumption DEF IInv, ValueInv
  <2> QED
    BY <2>2, <2>3, <2>4 DEF TornInv
<1>8. RadioInv'
  BY <1>1, BlankType DEF RadioInv, ReadsUnprotected
<1> QED
  BY <1>4, <1>5, <1>6, <1>7, <1>8 DEF IInv

LEMMA StepIInv == IInv /\ [Next]_vars => IInv'
<1> SUFFICES ASSUME IInv, [Next]_vars PROVE IInv'
  OBVIOUS
<1>1. CASE Set
  BY <1>1, RequestIInv, LanConfigAssumption DEF Set
<1>2. CASE SetShown
  BY <1>2, ShownType, RequestIInv DEF SetShown
<1>3. CASE UNCHANGED vars
  <2>1. DiskInv' /\ FileInv' /\ PlanInv' /\ ValueInv'
    BY <1>3 DEF vars, stepVars, IInv, DiskInv, FileInv, PlanInv, ValueInv
  <2>2. DoneInv' /\ AnswerInv' /\ TornInv' /\ RadioInv'
    BY <1>3 DEF vars, stepVars, IInv, DoneInv, AnswerInv, TornInv, RadioInv, ReadsUnprotected
  <2> QED
    BY <2>1, <2>2 DEF IInv
<1> QED
  BY <1>1, <1>2, <1>3, GetIInv, OpenFileIInv, CloseFileIInv, RunScriptIInv, AnswerIInv, CrashIInv
     DEF Next

LEMMA Invariance == Spec => []IInv
<1>1. IInv /\ [Next]_vars => IInv'
  BY StepIInv
<1> QED
  BY <1>1, InitIInv, PTL DEF Spec

-----------------------------------------------------------------------------
(* Theorems.                                                               *)

\* Every variable keeps its type, and a file is open only while it is the one
\* being written, whatever the operators enter and whenever the gateway fails.
THEOREM TypeCorrect == Spec => []TypeOK
<1>1. ASSUME IInv PROVE TypeOK
  <2>1. \A f \in {"eth", "wlan"} :
          {files[f]} \union disk[f] \subseteq {<<>>} \union {<<a>> : a \in Addr}
    <3>1. ASSUME NEW f \in {"eth", "wlan"}, NEW s \in Settings
          PROVE  \E a \in Addr : <<Content(f, s)>> = <<a>>
      BY LanConfigAssumption DEF Content, NetworkConfig, Settings
    <3>2. ASSUME NEW f \in {"eth", "wlan"}, NEW c \in {files[f]} \union disk[f]
          PROVE  c = <<>> \/ \E s \in Settings : c = <<Content(f, s)>>
      <4>1. f \in File
        BY DEF File
      <4>2. c = files[f] \/ c \in disk[f]
        BY <3>2
      <4> QED
        BY <1>1, <4>1, <4>2, Zenon DEF IInv, FileInv, DiskInv
    <3> QED
      BY <3>1, <3>2
  <2>2. todo \in Seq(File \union Scripts \union {"answer"})
    <3>1. CASE todo = <<>>
      BY <3>1
    <3>2. CASE todo # <<>>
      BY <1>1, <3>2, NextStep DEF IInv, PlanInv
    <3> QED
      BY <3>1, <3>2
  <2> QED
    BY <1>1, <2>1, <2>2 DEF IInv, PlanInv, ValueInv, TypeOK
<1> QED
  BY <1>1, Invariance, PTL

\* Success in a reply means that the interfaces run with what was asked for,
\* for all settings and after any number of requests and failures.
THEOREM RepliesTrue == Spec => []AnswerTrue
<1>1. ASSUME IInv, answer = 0
      PROVE  /\ files["use"] = <<UseConfig(saveDev)>>
             /\ saveDev.lanOn => applied["eth.sh"] = <<NetworkConfig(saveDev.lan)>>
             /\ saveDev.wlanOn =>
                  applied["wlan.sh"] = <<NetworkConfig(saveDev.wlan), SecurityScript(saveDev)>>
  <2>1. StepsIn(todo) = {} /\ status = 0
    BY <1>1 DEF IInv, AnswerInv, StepsIn
  <2>2. files["use"] = <<Content("use", saveDev)>>
    BY <1>1, <2>1 DEF IInv, DoneInv, FilesOf
  <2> QED
    BY <1>1, <2>1, <2>2 DEF IInv, DoneInv, Content
<1>2. IInv => AnswerTrue
  BY <1>1 DEF AnswerTrue
<1> QED
  BY <1>2, Invariance, PTL

\* Only a failure of the gateway leaves a file empty, or the two files of the
\* radio with different settings.
THEOREM FilesWhole == Spec => []TornOnlyAfterCrash
<1>1. ASSUME IInv PROVE TornOnlyAfterCrash
  <2>1. todo = <<>> => ~open /\ StepsIn(todo) = {}
    BY <1>1 DEF IInv, PlanInv, StepsIn
  <2> QED
    BY <1>1, <2>1 DEF IInv, TornInv, TornOnlyAfterCrash
<1> QED
  BY <1>1, Invariance, PTL

LEMMA RankType == ASSUME NEW file PROVE Rank(file) \in {0, 1, 2}
  BY DEF Rank

\* Settings shown and sent back never protect the radio better than before,
\* whatever was shown, written or interrupted earlier.
THEOREM NeverStronger == Spec => SentBackOnlyWeakens
<1>1. ASSUME IInv, SetShown, known = <<Read(device)>>, files["script"] # <<>>
      PROVE  Rank(<<SecurityScript(saveDev')>>) <= Rank(files["script"])
  <2> DEFINE shown == Read(device)
  <2>1. todo = <<>> /\ StepsIn(todo) = {}
    BY <1>1 DEF SetShown, Request, StepsIn
  <2>2. PICK lanOn \in BOOLEAN, wlanOn \in BOOLEAN :
          saveDev' = [known[1] EXCEPT !.lanOn = lanOn, !.wlanOn = wlanOn]
    BY <1>1 DEF SetShown, Request
  <2>3. /\ shown \in Settings
        /\ files["sec"] = <<>> => shown.mgmt = device.mgmt
        /\ files["sec"] # <<>> =>
             /\ shown.mgmt = KeyMgmt(files["sec"][1].mgmt)
             /\ files["sec"][1].mgmt = "WPA-PSK" => shown.group = device.group
    BY <1>1, ReadType DEF IInv, ValueInv
  <2>4. known[1] = shown
    BY <1>1
  <2> HIDE DEF shown
  <2>5. saveDev' \in Settings /\ saveDev'.mgmt = shown.mgmt /\ saveDev'.group = shown.group
    BY <2>2, <2>3, <2>4 DEF Settings
  <2>6. shown.mgmt \in {0, 1}
    BY <1>1, <2>3 DEF IInv, ValueInv, KeyMgmt
  <2>7. SecurityScript(saveDev').mgmt = "NONE"
    BY <2>5, <2>6 DEF SecurityScript
  <2>8. CASE Rank(files["script"]) = 2
    BY <2>8, RankType
  <2>9. CASE shown.mgmt = 0 \/ shown.group = 0
    <3>1. KeyLine(saveDev') = <<>>
      BY <2>5, <2>6, <2>9 DEF KeyLine
    <3>2. Rank(<<SecurityScript(saveDev')>>) = 0
      BY <2>7, <3>1 DEF Rank, SecurityScript
    <3> QED
      BY <3>2, RankType
  <2>10. CASE files["sec"] = files["script"]
    <3>1. CASE files["sec"][1].mgmt = "WPA-PSK"
      BY <2>8, <2>10, <3>1 DEF Rank
    <3>2. CASE files["sec"][1].mgmt # "WPA-PSK"
      BY <1>1, <2>3, <2>9, <2>10, <3>2 DEF KeyMgmt
    <3> QED
      BY <3>1, <3>2
  <2>11. CASE files["sec"] # files["script"]
    <3>1. ReadsUnprotected
      BY <1>1, <2>1, <2>11 DEF IInv, RadioInv
    <3>2. shown.mgmt = 0 \/ shown.group = 0
      BY <2>3, <3>1 DEF ReadsUnprotected, KeyMgmt
    <3> QED
      BY <2>9, <3>2
  <2> QED
    BY <2>10, <2>11
<1>2. ASSUME IInv, [Next]_vars
      PROVE  [SetShown /\ known = <<Read(device)>> /\ files["script"] # <<>>
              => Rank(<<SecurityScript(saveDev')>>) <= Rank(files["script"])]_vars
  BY <1>1, <1>2
<1> QED
  BY <1>2, Invariance, PTL DEF Spec, SentBackOnlyWeakens
=============================================================================
