----------------------- MODULE RilParcelLightsProofs -----------------------
(***************************************************************************)
(* Proofs about two parts that have nothing in common: the lights (Lights) *)
(* and the reading of a request's parcel (RilParcel).  Each section has    *)
(* the inductive invariant and the theorems of one.                        *)
(***************************************************************************)
EXTENDS Lights, RilParcel, TLAPS

USE SMTT(20), ZenonT(20)

-----------------------------------------------------------------------------
(* The lights.                                                             *)

(* The lights alone: the parts run steps them beside other components. *)
LightsSpec == LightsInit /\ [][LightsNext]_lightVars

(* The LEDs of the shared light, as a set. *)
Colours == {"red", "green", "blue"}

\* The state that the shared LED is to show, and the trigger it asks for.
Shown == g_light[SharedLight(g_light)]
TriggerOf(s) == IF s.flashMode = "NONE" THEN "none" ELSE "timer"

\* The writes that set_shared_light_locked makes for a state.
TriggerWrite(s, c) == [led |-> c, file |-> "trigger", to |-> TriggerOf(s)]
DelaysWrite(s, c) == [led |-> c, file |-> "delays", to |-> <<s.flashOnMS, s.flashOffMS>>]
BrightnessWrite(s, c) == [led |-> c, file |-> "brightness", to |-> s.color[c]]

(* All writes that belong to a state. *)
GoodWrites(s) ==
    {TriggerWrite(s, c) : c \in Colours}
    \union {DelaysWrite(s, c) : c \in {d \in Colours : TriggerOf(s) = "timer"}}
    \union {BrightnessWrite(s, c) : c \in Colours}

(* The files of one LED. *)
LedFile == [brightness : Int, trigger : {"none", "timer"}, delays : Int \X Int]

(* What the variables hold; the writes a caller still makes belong to the  *)
(* state the LED is to show.                                               *)
LightsTypeOK ==
    /\ g_lock \subseteq LightCallers
    /\ g_light \in [Shared -> LightState]
    /\ callerAt \in [LightCallers -> {"idle", "wait", "locked"}]
    /\ asks \in [LightCallers -> [light : Dimmed \union Shared, state : LightState]]
    /\ writes \in [LightCallers -> Seq(GoodWrites(Shown))]
    /\ dimFile \in [Dimmed -> Int]
    /\ dimAsked \in [Dimmed -> LightState]
    /\ ledFile \in [Colours -> LedFile]

\* Only the caller inside g_lock has writes to make.
LightsLocked ==
    /\ \A t \in LightCallers : callerAt[t] = "locked" <=> t \in g_lock
    /\ \A t, u \in g_lock : t = u
    /\ \A t \in LightCallers : t \notin g_lock => writes[t] = <<>>

\* An LED shows s, or the writes ws make it do so; the delay files are written only when the
\* timer is the trigger by then.
Owed(s, ws, led) ==
    /\ \A c \in Colours :
        /\ \/ led[c].brightness = s.color[c]
           \/ \E i \in 1 .. Len(ws) : ws[i] = BrightnessWrite(s, c)
        /\ \/ led[c].trigger = TriggerOf(s)
           \/ \E i \in 1 .. Len(ws) : ws[i] = TriggerWrite(s, c)
        /\ TriggerOf(s) = "timer" => \/ led[c].delays = <<s.flashOnMS, s.flashOffMS>>
                                     \/ \E i \in 1 .. Len(ws) : ws[i] = DelaysWrite(s, c)
    /\ \A i \in 1 .. Len(ws) : ws[i].file = "delays" =>
        \/ led[ws[i].led].trigger = "timer"
        \/ \E j \in 1 .. i - 1 : ws[j] = TriggerWrite(s, ws[i].led)

(* Outside g_lock the LED shows what it should; inside, the remaining      *)
(* writes see to it.                                                       *)
LedOwed ==
    /\ g_lock = {} => Owed(Shown, <<>>, ledFile)
    /\ \A t \in g_lock : Owed(Shown, writes[t], ledFile)
    /\ Shown.flashOnMS = 1 => Shown.flashMode = "NONE"

(* The other lights are dark exactly when they were asked to be. *)
DimShown == \A l \in Dimmed : dimFile[l] # 0 <=> rgb_to_brightness(dimAsked[l]) # 0

(* The inductive invariant. *)
LightsIInv == LightsTypeOK /\ LightsLocked /\ LedOwed /\ DimShown

-----------------------------------------------------------------------------
(* The trigger of an LED is written first, and then its delays if the      *)
(* timer is that trigger.                                                  *)
LEMMA TriggerWritesLaw ==
    ASSUME NEW s \in LightState, NEW c \in Colours
    PROVE  /\ TriggerWrites(s, c) \in Seq(GoodWrites(s))
           /\ TriggerWrites(s, c)[1] = TriggerWrite(s, c)
           /\ TriggerOf(s) = "none" => Len(TriggerWrites(s, c)) = 1
           /\ TriggerOf(s) = "timer" => /\ Len(TriggerWrites(s, c)) = 2
                                        /\ TriggerWrites(s, c)[2] = DelaysWrite(s, c)
  <1>1. TriggerWrite(s, c) \in GoodWrites(s)
    BY DEF GoodWrites
  <1>2. CASE s.flashMode = "NONE"
    BY <1>1, <1>2 DEF TriggerWrites, TriggerWrite, TriggerOf
  <1>3. CASE s.flashMode # "NONE"
    <2>1. DelaysWrite(s, c) \in GoodWrites(s)
      BY <1>3 DEF GoodWrites, TriggerOf
    <2>2. TriggerWrites(s, c) = <<TriggerWrite(s, c), DelaysWrite(s, c)>>
      BY <1>3 DEF TriggerWrites, TriggerWrite, DelaysWrite, TriggerOf
    <2> QED
      BY <1>1, <1>3, <2>1, <2>2 DEF TriggerOf
  <1> QED
    BY <1>2, <1>3

(* Last come the three brightnesses. *)
LEMMA BrightnessWritesLaw ==
    ASSUME NEW s \in LightState,
           NEW ws, ws = [i \in 1 .. 3 |-> [led |-> Leds[i], file |-> "brightness",
                                           to |-> s.color[Leds[i]]]]
    PROVE  /\ ws \in Seq(GoodWrites(s)) /\ Len(ws) = 3
           /\ ws[1] = BrightnessWrite(s, "red")
           /\ ws[2] = BrightnessWrite(s, "green")
           /\ ws[3] = BrightnessWrite(s, "blue")
  <1>1. /\ ws[1] = BrightnessWrite(s, "red")
        /\ ws[2] = BrightnessWrite(s, "green")
        /\ ws[3] = BrightnessWrite(s, "blue")
    BY DEF BrightnessWrite, Leds
  <1>2. \A i \in 1 .. 3 : ws[i] \in GoodWrites(s)
    BY <1>1 DEF GoodWrites, Colours
  <1>3. ws \in [1 .. 3 -> GoodWrites(s)]
    BY <1>2
  <1> QED
    BY <1>1, <1>3

\* Six writes when the LED does not flash, nine when it does, each delay after its trigger.
LEMMA SharedWritesLaw ==
    ASSUME NEW s \in LightState
    PROVE  /\ SharedWrites(s) \in Seq(GoodWrites(s))
           /\ \A led \in [Colours -> LedFile] :
                Owed(s, SharedWrites(s), led)
  <1> DEFINE W == GoodWrites(s)
             r == TriggerWrites(s, "red")
             g == TriggerWrites(s, "green")
             b == TriggerWrites(s, "blue")
             l == [i \in 1 .. 3 |-> [led |-> Leds[i], file |-> "brightness",
                                     to |-> s.color[Leds[i]]]]
             ws == SharedWrites(s)
  <1>1. r \in Seq(W) /\ g \in Seq(W) /\ b \in Seq(W)
    BY TriggerWritesLaw DEF Colours
  <1>2. /\ l \in Seq(W) /\ Len(l) = 3
        /\ l[1] = BrightnessWrite(s, "red")
        /\ l[2] = BrightnessWrite(s, "green")
        /\ l[3] = BrightnessWrite(s, "blue")
    BY Zenon, BrightnessWritesLaw
  <1>3. ws = ((r \o g) \o b) \o l
    BY DEF SharedWrites, Leds
  <1> DEFINE rg == r \o g
             rgb == rg \o b
  <1>3a. ws = rgb \o l
    BY <1>3
  <1> HIDE DEF W, r, g, b, l, ws
  <1>4a. /\ rg \in Seq(W)
         /\ Len(rg) = Len(r) + Len(g)
         /\ \A i \in 1 .. Len(r) : rg[i] = r[i]
         /\ \A i \in 1 .. Len(rg) : i > Len(r) => rg[i] = g[i - Len(r)]
    BY <1>1
  <1>4b. /\ rgb \in Seq(W)
         /\ Len(rgb) = Len(rg) + Len(b)
         /\ \A i \in 1 .. Len(rg) : rgb[i] = rg[i]
         /\ \A i \in 1 .. Len(rgb) : i > Len(rg) => rgb[i] = b[i - Len(rg)]
    <2>1. rg \in Seq(W)
      BY <1>4a
    <2> HIDE DEF rg
    <2> QED
      BY <1>1, <2>1
  <1> HIDE DEF rg, rgb
  <1>4. /\ ws \in Seq(W)
        /\ Len(ws) = Len(rgb) + Len(l)
        /\ \A i \in 1 .. Len(rgb) : ws[i] = rgb[i]
        /\ \A i \in 1 .. Len(ws) : i > Len(rgb) => ws[i] = l[i - Len(rgb)]
    <2>1. rgb \in Seq(W) /\ l \in Seq(W)
      BY <1>2, <1>4b
    <2> QED
      BY <1>3a, <2>1
  <1>5. CASE TriggerOf(s) = "none"
    <2>1. /\ Len(r) = 1 /\ r[1] = TriggerWrite(s, "red")
          /\ Len(g) = 1 /\ g[1] = TriggerWrite(s, "green")
          /\ Len(b) = 1 /\ b[1] = TriggerWrite(s, "blue")
      BY <1>5, TriggerWritesLaw DEF Colours, r, g, b
    <2>2. /\ Len(ws) = 6 /\ ws[1] = r[1] /\ ws[2] = g[1] /\ ws[3] = b[1]
          /\ ws[4] = l[1] /\ ws[5] = l[2] /\ ws[6] = l[3]
      <3>1. Len(rg) = 2 /\ rg[1] = r[1] /\ rg[2] = g[1]
        BY <1>4a, <2>1
      <3>2. Len(rgb) = 3 /\ rgb[1] = r[1] /\ rgb[2] = g[1] /\ rgb[3] = b[1]
        BY <1>4b, <2>1, <3>1
      <3> QED
        BY <1>2, <1>4, <3>2
    <2>3. \A i \in 1 .. Len(ws) : ws[i].file # "delays"
      BY <1>2, <2>1, <2>2 DEF TriggerWrite, BrightnessWrite
    <2>4. \A c \in Colours : /\ \E i \in 1 .. Len(ws) : ws[i] = BrightnessWrite(s, c)
                             /\ \E i \in 1 .. Len(ws) : ws[i] = TriggerWrite(s, c)
      BY <1>2, <2>1, <2>2 DEF Colours
    <2> QED
      BY <1>4, <1>5, <2>3, <2>4 DEF Owed, ws, W
  <1>6. CASE TriggerOf(s) = "timer"
    <2>1. /\ Len(r) = 2 /\ r[1] = TriggerWrite(s, "red") /\ r[2] = DelaysWrite(s, "red")
          /\ Len(g) = 2 /\ g[1] = TriggerWrite(s, "green") /\ g[2] = DelaysWrite(s, "green")
          /\ Len(b) = 2 /\ b[1] = TriggerWrite(s, "blue") /\ b[2] = DelaysWrite(s, "blue")
      BY <1>6, TriggerWritesLaw DEF Colours, r, g, b
    <2>2. /\ Len(ws) = 9 /\ ws[1] = r[1] /\ ws[2] = r[2] /\ ws[3] = g[1] /\ ws[4] = g[2]
          /\ ws[5] = b[1] /\ ws[6] = b[2]
          /\ ws[7] = l[1] /\ ws[8] = l[2] /\ ws[9] = l[3]
      <3>1. /\ Len(rg) = 4
            /\ rg[1] = r[1] /\ rg[2] = r[2] /\ rg[3] = g[1] /\ rg[4] = g[2]
        BY <1>4a, <2>1
      <3>2. /\ Len(rgb) = 6
            /\ rgb[1] = r[1] /\ rgb[2] = r[2] /\ rgb[3] = g[1] /\ rgb[4] = g[2]
            /\ rgb[5] = b[1] /\ rgb[6] = b[2]
        BY <1>4b, <2>1, <3>1
      <3> QED
        BY <1>2, <1>4, <3>2
    <2>3. \A i \in 1 .. Len(ws) : ws[i].file = "delays" =>
            \E j \in 1 .. i - 1 : ws[j] = TriggerWrite(s, ws[i].led)
      <3> SUFFICES ASSUME NEW i \in 1 .. 9, ws[i].file = "delays"
                   PROVE  \E j \in 1 .. i - 1 : ws[j] = TriggerWrite(s, ws[i].led)
        BY <2>2
      <3>1. i = 2 \/ i = 4 \/ i = 6
        BY <1>2, <2>1, <2>2 DEF TriggerWrite, BrightnessWrite
      <3>2. /\ ws[2].led = "red" /\ ws[4].led = "green" /\ ws[6].led = "blue"
        BY <2>1, <2>2 DEF DelaysWrite
      <3> QED
        BY <2>1, <2>2, <3>1, <3>2
    <2>4. \A c \in Colours : /\ \E i \in 1 .. Len(ws) : ws[i] = BrightnessWrite(s, c)
                             /\ \E i \in 1 .. Len(ws) : ws[i] = TriggerWrite(s, c)
                             /\ \E i \in 1 .. Len(ws) : ws[i] = DelaysWrite(s, c)
      BY <1>2, <2>1, <2>2 DEF Colours
    <2> QED
      BY <1>4, <1>6, <2>3, <2>4 DEF Owed, ws, W
  <1> QED
    BY <1>5, <1>6 DEF TriggerOf

Byte == 0 .. 255
(* The brightness of a colour, as a number of a byte. *)
Weight(r, g, b) == (77 * r + 150 * g + 29 * b) \div 256

(* The weights add up to 256: no colour is brighter than 255. *)
LEMMA Weighted ==
    ASSUME NEW r \in Byte, NEW g \in Byte, NEW b \in Byte
    PROVE  Weight(r, g, b) \in Byte
  BY SMT DEF Weight, Byte

(* Gamma correction and LCD_BRIGHTNESS_MIN make no lit panel dark and      *)
(* light no dark one.                                                      *)
LEMMA DimValueLaw ==
    ASSUME NEW light, NEW s \in LightState
    PROVE  /\ DimValue(light, s) \in Int
           /\ DimValue(light, s) # 0 <=> rgb_to_brightness(s) # 0
  <1>1. s.color.red \in Byte /\ s.color.green \in Byte /\ s.color.blue \in Byte
    BY DEF LightState, Byte
  <1>2. rgb_to_brightness(s) \in Byte
    <2>1. rgb_to_brightness(s) = Weight(s.color.red, s.color.green, s.color.blue)
      BY DEF rgb_to_brightness, Weight
    <2> QED
      BY <1>1, <2>1, Weighted
  <1>3. ASSUME NEW b \in 1 .. 255
        PROVE  brightness_apply_gamma(b) \in 1 .. 255
    <2>1. Gamma(b) \in 0 .. 255 /\ LCD_BRIGHTNESS_MIN \in 1 .. 255
      BY Zenon, LightsAssumption
    <2> QED
      BY SMT, <2>1 DEF brightness_apply_gamma
  <1>4. CASE rgb_to_brightness(s) = 0
    BY SMT, <1>4 DEF DimValue
  <1>5. CASE rgb_to_brightness(s) # 0
    <2>1. rgb_to_brightness(s) \in 1 .. 255
      BY SMT, <1>2, <1>5 DEF Byte
    <2>2. DimValue(light, s) \in 1 .. 255
      BY <1>3, <2>1, Zenon DEF DimValue
    <2> QED
      BY SMT, <1>5, <2>2
  <1> QED
    BY <1>4, <1>5

-----------------------------------------------------------------------------
(* At the start all lights are dark. *)
LEMMA LightsStart == LightsInit => LightsIInv
  <1> SUFFICES ASSUME LightsInit PROVE LightsIInv
    OBVIOUS
  <1>1. Dark \in LightState /\ Dark.flashMode = "NONE" /\ Dark.flashOnMS = 0
    BY DEF Dark, LightState, FlashModes
  <1>2. /\ g_light \in [Shared -> LightState] /\ Shown = Dark
    BY <1>1 DEF LightsInit, Shown, SharedLight, Shared
  <1>3. asks \in [LightCallers -> [light : Dimmed \union Shared, state : LightState]]
    BY <1>1 DEF LightsInit, NoAsk, Shared
  <1>4. /\ writes \in [LightCallers -> Seq(GoodWrites(Shown))]
        /\ \A t \in LightCallers : writes[t] = <<>>
    BY DEF LightsInit
  <1>5. LightsTypeOK
    BY <1>1, <1>2, <1>3, <1>4 DEF LightsTypeOK, LightsInit, Colours, LedFile
  <1>6. LightsLocked
    BY <1>4 DEF LightsLocked, LightsInit
  <1>7. Owed(Dark, <<>>, ledFile)
    BY DEF Owed, LightsInit, Dark, Colours, TriggerOf
  <1>8. LedOwed
    BY <1>1, <1>2, <1>7 DEF LedOwed, LightsInit
  <1>9. DimShown
    <2>1. Dark.color.red = 0 /\ Dark.color.green = 0 /\ Dark.color.blue = 0
      BY DEF Dark
    <2>2. 77 * 0 + 150 * 0 + 29 * 0 = 0 /\ 0 \div 256 = 0
      BY SMT
    <2>3. rgb_to_brightness(Dark) = 0
      BY <2>1, <2>2 DEF rgb_to_brightness
    <2> QED
      BY Zenon, <2>3 DEF DimShown, LightsInit
  <1> QED
    BY <1>5, <1>6, <1>8, <1>9 DEF LightsIInv

(* A caller that waits for g_lock changes nothing. *)
LEMMA LightCallKeeps ==
    ASSUME LightsIInv, NEW t \in LightCallers, LightCall(t)
    PROVE  LightsIInv'
  <1> USE DEF LightsIInv, LightCall
  <1>1. Shown' = Shown
    BY DEF Shown
  <1>2. asks' \in [LightCallers -> [light : Dimmed \union Shared, state : LightState]]
    <2>1. PICK l \in Dimmed \union Shared, s \in LightStates :
            asks' = [asks EXCEPT ![t] = [light |-> l, state |-> s]]
      BY Zenon
    <2>2. s \in LightState
      BY Zenon, LightsAssumption
    <2> QED
      BY <2>1, <2>2 DEF LightsTypeOK
  <1>3. LightsTypeOK'
    BY <1>1, <1>2 DEF LightsTypeOK
  <1>4. LightsLocked'
    BY DEF LightsLocked, LightsTypeOK
  <1>5. LedOwed'
    BY <1>1 DEF LedOwed
  <1>6. DimShown'
    BY DEF DimShown
  <1> QED
    BY <1>3, <1>4, <1>5, <1>6

(* Nobody unlocks while a write is left. *)
LEMMA LightUnlockKeeps ==
    ASSUME LightsIInv, NEW t \in LightCallers, LightUnlock(t)
    PROVE  LightsIInv'
  <1> USE DEF LightsIInv, LightUnlock
  <1>1. Shown' = Shown
    BY DEF Shown
  <1>2. NoAsk \in [light : Dimmed \union Shared, state : LightState]
    BY DEF NoAsk, Dark, LightState, FlashModes, Shared
  <1>3. LightsTypeOK'
    BY <1>1, <1>2 DEF LightsTypeOK
  <1>4. LightsLocked'
    BY DEF LightsLocked, LightsTypeOK
  <1>5. LedOwed'
    BY <1>1 DEF LedOwed, LightsLocked
  <1>6. DimShown'
    BY DEF DimShown
  <1> QED
    BY <1>3, <1>4, <1>5, <1>6

(* Whoever gets the lock stores its state and owes all writes of the one   *)
(* that is to show.                                                        *)
LEMMA LightLockKeeps ==
    ASSUME LightsIInv, NEW t \in LightCallers, LightLock(t)
    PROVE  LightsIInv'
  <1> USE DEF LightsIInv
  <1>1. /\ callerAt[t] = "wait" /\ g_lock = {} /\ g_lock' = {t}
        /\ callerAt' = [callerAt EXCEPT ![t] = "locked"]
        /\ asks' = asks /\ ledFile' = ledFile
    BY DEF LightLock
  <1>2. asks[t].light \in Dimmed \union Shared /\ asks[t].state \in LightState
    BY DEF LightsTypeOK
  <1>3. \A u \in LightCallers : writes[u] = <<>>
    BY <1>1 DEF LightsLocked
  <1>4. CASE asks[t].light \in Dimmed /\ SetDimmed(t)
    <2>1. Shown' = Shown /\ writes' = writes /\ g_light' = g_light
      BY <1>4 DEF SetDimmed, Shown
    <2>2. /\ dimFile' \in [Dimmed -> Int] /\ dimAsked' \in [Dimmed -> LightState]
          /\ DimShown'
      BY <1>2, <1>4, DimValueLaw DEF SetDimmed, LightsTypeOK, DimShown
    <2>3. LightsTypeOK'
      BY <1>1, <2>1, <2>2 DEF LightsTypeOK
    <2>4. LightsLocked'
      BY <1>1, <1>3, <2>1 DEF LightsLocked, LightsTypeOK
    <2>5. LedOwed'
      BY <1>1, <1>3, <2>1 DEF LedOwed
    <2> QED
      BY <2>2, <2>3, <2>4, <2>5
  <1>5. CASE asks[t].light \in Shared /\ SetShared(t)
    <2> DEFINE stored == [g_light EXCEPT ![asks[t].light] = asks[t].state]
               shows == SharedLight(stored)
               s == Flash(stored[shows])
    <2>1. stored \in [Shared -> LightState] /\ shows \in Shared
      BY <1>2, <1>5 DEF LightsTypeOK, SharedLight, Shared
    <2>2. /\ g_light' = [stored EXCEPT ![shows] = s]
          /\ writes' = [writes EXCEPT ![t] = SharedWrites(s)]
          /\ dimFile' = dimFile /\ dimAsked' = dimAsked
      BY <1>5 DEF SetShared
    <2>3. stored[shows] \in LightState
      BY Zenon, <2>1
    <2>4. /\ s \in LightState /\ s.color = stored[shows].color
          /\ s.flashOnMS = 1 => s.flashMode = "NONE"
      <3> HIDE DEF stored, shows
      <3> QED
        BY ZenonT(30), <2>3 DEF Flash, LightState, FlashModes
    <2>5. g_light' \in [Shared -> LightState]
      <3> HIDE DEF stored, shows, s
      <3> QED
        BY <2>1, <2>2, <2>4
    <2>6. SharedLight(g_light') = shows
      <3>1. \A l \in Shared : g_light'[l].color = stored[l].color
        <4> HIDE DEF stored, shows, s
        <4> QED
          BY <2>1, <2>2, <2>4
      <3>2. g_light'["notifications"].color = stored["notifications"].color
        BY <3>1 DEF Shared
      <3> HIDE DEF stored
      <3> QED
        BY <3>2 DEF SharedLight, is_lit
    <2>7. Shown' = s
      <3> HIDE DEF stored, shows, s
      <3> QED
        BY <2>1, <2>2, <2>6 DEF Shown
    <2> HIDE DEF stored, shows, s
    <2>8. /\ SharedWrites(s) \in Seq(GoodWrites(s))
          /\ Owed(s, SharedWrites(s), ledFile)
      BY <2>4, SharedWritesLaw DEF LightsTypeOK
    <2>9. /\ writes' \in [LightCallers -> Seq(GoodWrites(s))]
          /\ writes'[t] = SharedWrites(s)
          /\ \A u \in LightCallers \ {t} : writes'[u] = <<>>
      <3>1. /\ writes'[t] = SharedWrites(s)
            /\ \A u \in LightCallers \ {t} : writes'[u] = <<>>
            /\ DOMAIN writes' = LightCallers
            /\ writes' = [u \in LightCallers |-> writes'[u]]
        BY Zenon, <1>3, <2>2 DEF LightsTypeOK
      <3>2. <<>> \in Seq(GoodWrites(s))
        OBVIOUS
      <3> QED
        BY Zenon, <2>8, <3>1, <3>2
    <2>10. LightsTypeOK'
      <3>1. writes' \in [LightCallers -> Seq(GoodWrites(Shown'))]
        BY <2>7, <2>9
      <3> QED
        BY <1>1, <2>2, <2>5, <3>1 DEF LightsTypeOK
    <2>11. LightsLocked'
      BY <1>1, <2>9 DEF LightsLocked, LightsTypeOK
    <2>12. LedOwed'
      <3>1. Owed(Shown', writes'[t], ledFile')
        BY <1>1, <2>7, <2>8, <2>9
      <3>2. Shown'.flashOnMS = 1 => Shown'.flashMode = "NONE"
        BY <2>4, <2>7
      <3> QED
        BY <1>1, <3>1, <3>2 DEF LedOwed
    <2>13. DimShown'
      BY <2>2 DEF DimShown
    <2> QED
      BY <2>10, <2>11, <2>12, <2>13
  <1> QED
    BY <1>4, <1>5 DEF LightLock

\* One write does what it says to one LED, and drops out of what is owed.
LEMMA WriteOwed ==
    ASSUME NEW s \in LightState, NEW ws \in Seq(GoodWrites(s)), ws # <<>>,
           NEW led \in [Colours -> LedFile],
           Owed(s, ws, led),
           NEW after, after = [led EXCEPT ![Head(ws).led] = Written(@, Head(ws))]
    PROVE  /\ after \in [Colours -> LedFile]
           /\ Tail(ws) \in Seq(GoodWrites(s))
           /\ Owed(s, Tail(ws), after)
  <1> DEFINE w == Head(ws)
             rest == Tail(ws)
             d == <<s.flashOnMS, s.flashOffMS>>
  <1>1. /\ w = ws[1] /\ w \in GoodWrites(s) /\ rest \in Seq(GoodWrites(s))
        /\ Len(ws) \in Nat /\ Len(ws) >= 1 /\ Len(rest) = Len(ws) - 1
        /\ \A i \in 1 .. Len(rest) : rest[i] = ws[i + 1]
    OBVIOUS
  <1>2. s.color \in [alpha : 0 .. 255, red : 0 .. 255, green : 0 .. 255, blue : 0 .. 255]
    BY DEF LightState
  <1>3. d \in Int \X Int /\ \A c \in Colours : s.color[c] \in Int
    <2>1. d \in Int \X Int
      BY DEF LightState
    <2>2. s.color.red \in Int /\ s.color.green \in Int /\ s.color.blue \in Int
      <3>1. s.color.red \in Byte /\ s.color.green \in Byte /\ s.color.blue \in Byte
        BY ZenonT(30) DEF LightState, Byte
      <3>2. Byte \subseteq Int
        BY SMT DEF Byte
      <3> QED
        BY Zenon, <3>1, <3>2
    <2>3. /\ s.color["red"] = s.color.red /\ s.color["green"] = s.color.green
          /\ s.color["blue"] = s.color.blue
      BY SMT, <1>2
    <2> QED
      BY <2>1, <2>2, <2>3 DEF Colours
  <1>4. TriggerOf(s) \in {"none", "timer"}
    BY DEF TriggerOf
  <1> HIDE DEF w, rest, d
  <1>5. ASSUME NEW x, NEW i \in 1 .. Len(ws), ws[i] = x, x # w
        PROVE  \E j \in 1 .. Len(rest) : rest[j] = x
    <2>1. i # 1
      BY <1>1, <1>5
    <2>2. i - 1 \in 1 .. Len(rest) /\ rest[i - 1] = ws[(i - 1) + 1] /\ (i - 1) + 1 = i
      BY <1>1, <2>1
    <2> QED
      BY <1>5, <2>2
  <1>6. \A i \in 1 .. Len(rest) : /\ i + 1 \in 1 .. Len(ws)
                                  /\ rest[i] = ws[i + 1]
    BY <1>1
  <1>7. after = [led EXCEPT ![w.led] = Written(led[w.led], w)]
    BY DEF w
  <1>8. ASSUME NEW f \in LedFile, NEW c \in Colours, after = [led EXCEPT ![c] = f]
        PROVE  /\ after \in [Colours -> LedFile]
               /\ after[c] = f
               /\ \A e \in Colours : e # c => after[e] = led[e]
    BY Zenon, <1>8
  <1> DEFINE Right(e) ==
        /\ after[e].brightness = s.color[e] \/ /\ after[e].brightness = led[e].brightness
                                               /\ w # BrightnessWrite(s, e)
        /\ after[e].trigger = TriggerOf(s) \/ /\ after[e].trigger = led[e].trigger
                                              /\ w # TriggerWrite(s, e)
        /\ after[e].delays = d \/ /\ after[e].delays = led[e].delays
                                  /\ w # DelaysWrite(s, e)
  <1>9. after \in [Colours -> LedFile] /\ \A e \in Colours : Right(e)
    <2>1. CASE \E c \in Colours : w = TriggerWrite(s, c)
      <3>1. PICK c \in Colours : w = TriggerWrite(s, c)
        BY <2>1
      <3>2. w.led = c /\ w.file = "trigger" /\ w.to = TriggerOf(s)
        BY <3>1 DEF TriggerWrite
      <3> DEFINE f == [led[c] EXCEPT !.trigger = TriggerOf(s)]
      <3>3. after = [led EXCEPT ![c] = f]
        BY Zenon, <1>7, <3>2 DEF Written
      <3>4. /\ f \in LedFile /\ f.trigger = TriggerOf(s)
            /\ f.brightness = led[c].brightness /\ f.delays = led[c].delays
        BY <1>4 DEF LedFile
      <3> HIDE DEF f
      <3>5. \A e \in Colours : /\ w # BrightnessWrite(s, e) /\ w # DelaysWrite(s, e)
                               /\ e # c => w # TriggerWrite(s, e)
        BY <3>2 DEF TriggerWrite, BrightnessWrite, DelaysWrite
      <3> QED
        BY Zenon, <1>8, <3>3, <3>4, <3>5
    <2>2. CASE \E c \in Colours : w = BrightnessWrite(s, c)
      <3>1. PICK c \in Colours : w = BrightnessWrite(s, c)
        BY <2>2
      <3>2. w.led = c /\ w.file = "brightness" /\ w.to = s.color[c]
        BY <3>1 DEF BrightnessWrite
      <3> DEFINE f == [led[c] EXCEPT !.brightness = s.color[c]]
      <3>3. after = [led EXCEPT ![c] = f]
        BY Zenon, <1>7, <3>2 DEF Written
      <3>4. /\ f \in LedFile /\ f.brightness = s.color[c]
            /\ f.trigger = led[c].trigger /\ f.delays = led[c].delays
        BY Zenon, <1>3 DEF LedFile
      <3> HIDE DEF f
      <3>5. \A e \in Colours : /\ w # TriggerWrite(s, e) /\ w # DelaysWrite(s, e)
                               /\ e # c => w # BrightnessWrite(s, e)
        BY <3>2 DEF TriggerWrite, BrightnessWrite, DelaysWrite
      <3> QED
        BY Zenon, <1>8, <3>3, <3>4, <3>5
    <2>3. CASE \E c \in Colours : w = DelaysWrite(s, c)
      <3>1. PICK c \in Colours : w = DelaysWrite(s, c)
        BY <2>3
      <3>2. w.led = c /\ w.file = "delays" /\ w.to = d
        BY <3>1 DEF DelaysWrite, d
      <3>3. led[c].trigger = "timer"
        BY <1>1, <3>2 DEF Owed
      <3> DEFINE f == [led[c] EXCEPT !.delays = d]
      <3>4. after = [led EXCEPT ![c] = f]
        BY Zenon, <1>7, <3>2, <3>3 DEF Written
      <3>5. /\ f \in LedFile /\ f.delays = d
            /\ f.trigger = led[c].trigger /\ f.brightness = led[c].brightness
        BY ZenonT(30), <1>3 DEF LedFile
      <3> HIDE DEF f
      <3>6. \A e \in Colours : /\ w # TriggerWrite(s, e) /\ w # BrightnessWrite(s, e)
                               /\ e # c => w # DelaysWrite(s, e)
        BY <3>2 DEF TriggerWrite, BrightnessWrite, DelaysWrite
      <3> QED
        BY Zenon, <1>8, <3>4, <3>5, <3>6
    <2> QED
      BY Zenon, <1>1, <2>1, <2>2, <2>3 DEF GoodWrites
  <1>10. ASSUME NEW c \in Colours
         PROVE  /\ \/ after[c].brightness = s.color[c]
                   \/ \E i \in 1 .. Len(rest) : rest[i] = BrightnessWrite(s, c)
                /\ \/ after[c].trigger = TriggerOf(s)
                   \/ \E i \in 1 .. Len(rest) : rest[i] = TriggerWrite(s, c)
                /\ TriggerOf(s) = "timer" =>
                    \/ after[c].delays = d
                    \/ \E i \in 1 .. Len(rest) : rest[i] = DelaysWrite(s, c)
    <2>1. /\ \/ led[c].brightness = s.color[c]
             \/ \E i \in 1 .. Len(ws) : ws[i] = BrightnessWrite(s, c)
          /\ \/ led[c].trigger = TriggerOf(s)
             \/ \E i \in 1 .. Len(ws) : ws[i] = TriggerWrite(s, c)
          /\ TriggerOf(s) = "timer" =>
              \/ led[c].delays = d
              \/ \E i \in 1 .. Len(ws) : ws[i] = DelaysWrite(s, c)
      BY DEF Owed, d
    <2>2. Right(c)
      BY <1>9
    <2> QED
      BY Zenon, <1>5, <2>1, <2>2
  <1>11. ASSUME NEW i \in 1 .. Len(rest), rest[i].file = "delays"
         PROVE  \/ after[rest[i].led].trigger = "timer"
                \/ \E j \in 1 .. i - 1 : rest[j] = TriggerWrite(s, rest[i].led)
    <2>1. rest[i] \in GoodWrites(s)
      BY <1>1
    <2>2. PICK c \in Colours : TriggerOf(s) = "timer" /\ rest[i] = DelaysWrite(s, c)
      BY <1>11, <2>1 DEF GoodWrites, TriggerWrite, BrightnessWrite
    <2>3. rest[i].led = c
      BY <2>2 DEF DelaysWrite
    <2>4. i + 1 \in 1 .. Len(ws) /\ ws[i + 1] = rest[i] /\ (i + 1) - 1 = i
      BY <1>6
    <2>5. \/ led[c].trigger = "timer"
          \/ \E j \in 1 .. i : ws[j] = TriggerWrite(s, c)
      <3>1. \/ led[ws[i + 1].led].trigger = "timer"
            \/ \E j \in 1 .. (i + 1) - 1 : ws[j] = TriggerWrite(s, ws[i + 1].led)
        BY Zenon, <1>11, <2>4 DEF Owed
      <3> QED
        BY <2>3, <2>4, <3>1
    <2>6. CASE led[c].trigger = "timer"
      BY Zenon, <1>9, <2>2, <2>3, <2>6
    <2>7. CASE \E j \in 1 .. i : ws[j] = TriggerWrite(s, c)
      <3>1. PICK j \in 1 .. i : ws[j] = TriggerWrite(s, c)
        BY Zenon, <2>7
      <3>2. CASE j = 1
        BY Zenon, <1>1, <1>9, <2>2, <2>3, <3>1, <3>2
      <3>3. CASE j # 1
        <4>1. /\ j - 1 \in 1 .. i - 1 /\ j - 1 \in 1 .. Len(rest) /\ (j - 1) + 1 = j
          BY <1>1, <3>3
        <4>2. rest[j - 1] = ws[j]
          BY Zenon, <1>6, <4>1
        <4> QED
          BY <2>3, <3>1, <4>1, <4>2
      <3> QED
        BY <3>2, <3>3
    <2> QED
      BY <2>5, <2>6, <2>7
  <1>12. Owed(s, rest, after)
    BY Zenon, <1>10, <1>11 DEF Owed, d
  <1> QED
    BY <1>1, <1>9, <1>12 DEF rest

(* One write at a time is paid off. *)
LEMMA LightWriteKeeps ==
    ASSUME LightsIInv, NEW t \in LightCallers, LightWrite(t)
    PROVE  LightsIInv'
  <1> USE DEF LightsIInv
  <1> DEFINE s == Shown
             ws == writes[t]
  <1>1. t \in g_lock /\ ws # <<>>
    BY DEF LightsLocked, LightWrite
  <1>2. Shown' = s /\ g_light' = g_light /\ g_lock' = g_lock /\ asks' = asks
        /\ callerAt' = callerAt /\ dimFile' = dimFile /\ dimAsked' = dimAsked
    BY DEF LightWrite, Shown
  <1>3. s \in LightState
    BY DEF LightsTypeOK, Shown, SharedLight, Shared
  <1>4. ws \in Seq(GoodWrites(s)) /\ Owed(s, ws, ledFile)
    BY <1>1 DEF LightsTypeOK, LedOwed
  <1>5. /\ ledFile' = [ledFile EXCEPT ![Head(ws).led] = Written(@, Head(ws))]
        /\ writes' = [writes EXCEPT ![t] = Tail(ws)]
    BY DEF LightWrite
  <1>6. ledFile \in [Colours -> LedFile]
    BY DEF LightsTypeOK
  <1> HIDE DEF s, ws
  <1>7. /\ ledFile' \in [Colours -> LedFile]
        /\ Tail(ws) \in Seq(GoodWrites(s))
        /\ Owed(s, Tail(ws), ledFile')
    BY Zenon, <1>1, <1>3, <1>4, <1>5, <1>6, WriteOwed
  <1>8. /\ writes' \in [LightCallers -> Seq(GoodWrites(s))] /\ writes'[t] = Tail(ws)
        /\ \A u \in LightCallers \ {t} : writes'[u] = writes[u]
    BY <1>5, <1>7 DEF LightsTypeOK, s
  <1>9. LightsTypeOK'
    BY <1>2, <1>7, <1>8 DEF LightsTypeOK
  <1>10. LightsLocked'
    BY <1>1, <1>2, <1>8 DEF LightsLocked
  <1>11. LedOwed'
    <2>1. \A u \in g_lock' : u = t
      BY <1>1, <1>2 DEF LightsLocked
    <2>2. Owed(Shown', writes'[t], ledFile')
      BY <1>2, <1>7, <1>8
    <2>3. Shown'.flashOnMS = 1 => Shown'.flashMode = "NONE"
      BY <1>2 DEF LedOwed, s
    <2> QED
      BY Zenon, <1>1, <1>2, <2>1, <2>2, <2>3 DEF LedOwed
  <1>12. DimShown'
    BY <1>2 DEF DimShown
  <1> QED
    BY <1>9, <1>10, <1>11, <1>12

(* Every reachable state satisfies the invariant. *)
LEMMA LightsAlways == LightsSpec => []LightsIInv
  <1>1. LightsIInv /\ UNCHANGED lightVars => LightsIInv'
    BY DEF LightsIInv, LightsTypeOK, LightsLocked, LedOwed, DimShown, Shown, lightVars
  <1>2. LightsIInv /\ [LightsNext]_lightVars => LightsIInv'
    BY <1>1, LightCallKeeps, LightLockKeeps, LightWriteKeeps, LightUnlockKeeps DEF LightsNext
  <1> QED
    BY LightsStart, <1>2, PTL DEF LightsSpec

(* Whenever nobody is inside g_lock the LED shows, in all colours and with *)
(* its flashing, the notification if that is lit and the battery's light   *)
(* otherwise, and no other light is dark or lit against its last call      *)
(* (set_light_battery, set_light_notifications,                            *)
(* handle_shared_battery_locked, set_light_backlight): for any number of   *)
(* callers and whatever states they ask for.                               *)
THEOREM LightsShownAlways == LightsSpec => []LightsShown
  <1>1. LightsIInv => LightsShown
    <2> SUFFICES ASSUME LightsIInv, g_lock = {} PROVE LightsShown
      BY DEF LightsShown
    <2> DEFINE s == Shown
    <2>1. /\ Owed(s, <<>>, ledFile)
          /\ s.flashOnMS = 1 => s.flashMode = "NONE"
      BY DEF LightsIInv, LedOwed
    <2>2. DOMAIN ledFile = Colours
      BY DEF LightsIInv, LightsTypeOK
    <2> HIDE DEF s
    <2>3. \A c \in Colours :
            /\ ledFile[c].brightness = s.color[c]
            /\ ledFile[c].trigger = TriggerOf(s)
            /\ TriggerOf(s) = "timer" => ledFile[c].delays = <<s.flashOnMS, s.flashOffMS>>
      BY <2>1 DEF Owed
    <2>4. TriggerOf(s) = IF s.flashMode # "NONE" /\ s.flashOnMS # 1 THEN "timer" ELSE "none"
      BY <2>1 DEF TriggerOf
    <2>5. DimShown
      BY DEF LightsIInv
    <2> QED
      BY <2>2, <2>3, <2>4, <2>5 DEF LightsShown, DimShown, s, Shown
  <1> QED
    BY LightsAlways, <1>1, PTL

-----------------------------------------------------------------------------
(* Parcels: whatever the lists of steps of the functions are, one test of  *)
(* the last status covers all the reads before it.                         *)

(* The two invariants together are inductive: FailureLasts says that the   *)
(* test in CheckStatus cannot succeed after a read that failed.            *)
Failures == FailureLasts /\ CheckedIsComplete

LEMMA FailuresInit == Init => Failures
BY DEF Init, Failures, FailureLasts, CheckedIsComplete

(* After a read that failed, a read finds no cell.                         *)
LEMMA NoCells == ASSUME FailureLasts, stale, NEW k PROVE Cells(k) = {}
BY DEF FailureLasts, Cells

(* A read that has no status keeps what the invariants speak of.           *)
LEMMA ReadKeeps ==
    ASSUME Failures, UNCHANGED <<status, checked, stale>>, NEW k,
           (\E c \in Cells(k) : Consume) \/ AtEnd
    PROVE  Failures'
<1>1. CASE stale
  <2>1. AtEnd
    BY <1>1, NoCells DEF Failures
  <2> QED BY <1>1, <2>1 DEF Failures, FailureLasts, CheckedIsComplete, AtEnd
<1>2. CASE ~stale
  BY <1>2 DEF Failures, FailureLasts, CheckedIsComplete
<1> QED BY <1>1, <1>2

(* A read of an integer: it fails if one failed before.                    *)
LEMMA ReadIntKeeps == ASSUME Failures, ReadInt PROVE Failures'
<1>1. checked' = FALSE
  BY DEF ReadInt
<1>2. CASE /\ \E c \in Cells("int") : Consume
           /\ UNCHANGED stale
  <2>1. ~stale
    BY <1>2, NoCells DEF Failures
  <2> QED BY <1>1, <1>2, <2>1 DEF Failures, FailureLasts, CheckedIsComplete
<1>3. CASE AtEnd /\ status' = FALSE /\ stale' = TRUE
  BY <1>1, <1>3 DEF AtEnd, Failures, FailureLasts, CheckedIsComplete
<1> QED BY Zenon, <1>2, <1>3 DEF ReadInt

LEMMA ReadsKeep == ASSUME Failures, Reads PROVE Failures'
<1>1. CASE ReadInt
  BY <1>1, ReadIntKeeps
<1>2. CASE ReadIntValue
  <2>1. UNCHANGED <<status, checked, stale>> /\ ((\E c \in Cells("int") : Consume) \/ AtEnd)
    BY <1>2 DEF ReadIntValue
  <2> QED BY <2>1, ReadKeeps
<1>3. CASE strdupReadString \/ ReadString16 \/ ReadInplace
  <2>1. UNCHANGED <<status, checked, stale>> /\ ((\E c \in Cells("str") : Consume) \/ AtEnd)
    BY Zenon, <1>3 DEF strdupReadString, ReadString16, ReadInplace
  <2> QED BY <2>1, ReadKeeps
<1> QED BY <1>1, <1>2, <1>3 DEF Reads

(* A step that leaves the input alone.                                     *)
LEMMA FailuresFrame == ASSUME Failures, UNCHANGED input PROVE Failures'
BY DEF Failures, FailureLasts, CheckedIsComplete, input

(* The test: status is NO_ERROR only if no read failed.                    *)
LEMMA TestKeeps == ASSUME Failures, CheckStatus PROVE Failures'
<1>1. UNCHANGED <<parcel, open, status, stale>> /\ (checked' = checked \/ (status /\ checked' = TRUE))
  BY DEF CheckStatus
<1> QED BY <1>1 DEF Failures, FailureLasts, CheckedIsComplete

LEMMA FailuresStep == Failures /\ [Next]_vars => Failures'
<1> SUFFICES ASSUME Failures, [Next]_vars PROVE Failures'
  OBVIOUS
<1>1. CASE Reads
  BY <1>1, ReadsKeep
<1>2. CASE CheckStatus
  BY <1>2, TestKeeps
<1>3. CASE CallRewound \/ CallEncoded \/ SendBack
  <2>1. stale' = FALSE
    BY <1>3 DEF CallRewound, CallEncoded, SendBack
  <2> QED BY <2>1 DEF Failures, FailureLasts, CheckedIsComplete
<1>4. CASE SetNull \/ LeaveEarly \/ Loop \/ Branch \/ CallVendor \/ CompleteHere
  BY Zenon, <1>4, FailuresFrame DEF SetNull, LeaveEarly, Loop, Branch, Take, CallVendor,
     CompleteHere
<1>5. CASE Copied
  BY <1>5, FailuresFrame DEF Copied, StrdupLiteral, Free, FreeOuter
<1>6. CASE PickField \/ DeriveField \/ PutField \/ PutNumber \/ BeginElement
  BY <1>6, FailuresFrame DEF PickField, DeriveField, PutField, PutNumber, BeginElement
<1>7. CASE UNCHANGED vars
  BY <1>7, FailuresFrame DEF vars
<1> QED BY <1>1, <1>2, <1>3, <1>4, <1>5, <1>6, <1>7 DEF Next, Tests, Passes, Writes

(* Whatever the functions are, the comment "note we only check status at   *)
(* the end" of dispatchSIM_IO and others is right: a status that is        *)
(* NO_ERROR when it is tested means that every read of an integer before   *)
(* it delivered one.                                                       *)
THEOREM OneTestIsEnough == Spec => []CheckedIsComplete
<1>1. Failures => CheckedIsComplete
  BY DEF Failures
<1> QED BY <1>1, FailuresInit, FailuresStep, PTL DEF Spec
=============================================================================
