------------------------------- MODULE Lights -------------------------------
(***************************************************************************)
(* The lights module (lights.c): callers on several threads set five       *)
(* lights.  Three have a brightness file of their own; battery and         *)
(* notification share one LED of three colours, whose files are written    *)
(* one after the other under g_lock.  A file is its last value; the delay  *)
(* files of an LED exist only while its trigger is the timer.              *)
(***************************************************************************)
EXTENDS Integers, Sequences

CONSTANTS
    Dimmed,             \* the lights with a file of their own that the build has:
                        \* "backlight", and "buttons" and "keyboard" by #ifdef
    LightCallers,       \* threads
    LightStates,        \* what they ask for: [color, flashMode, flashOnMS,
                        \* flashOffMS], a colour being [alpha, red, green, blue]
    Gamma(_),           \* 255 * pow(brightness / 255, 2.2), cut to an integer
    LCD_BRIGHTNESS_MIN

Leds == <<"red", "green", "blue">>
Shared == {"battery", "notifications"}
FlashModes == {"NONE", "TIMED", "HARDWARE"}

LightState == [color : [alpha : 0 .. 255, red : 0 .. 255, green : 0 .. 255, blue : 0 .. 255],
               flashMode : FlashModes, flashOnMS : Int, flashOffMS : Int]

ASSUME LightsAssumption ==
    /\ Dimmed \subseteq {"backlight", "buttons", "keyboard"}
    /\ LightStates \subseteq LightState
    /\ \A b \in 1 .. 255 : Gamma(b) \in 0 .. 255
    /\ LCD_BRIGHTNESS_MIN \in 1 .. 255

Dark == [color |-> [alpha |-> 0, red |-> 0, green |-> 0, blue |-> 0],
         flashMode |-> "NONE", flashOnMS |-> 0, flashOffMS |-> 0]

VARIABLES
    g_lock,             \* the callers inside it: none or one
    g_light,            \* g_light["battery"], g_light["notifications"]
    callerAt,           \* "idle", "wait" for g_lock or "locked"
    asks,               \* asks[t]: the light and the state of its call
    writes,             \* writes[t]: the file writes it still makes
    dimFile,            \* the brightness file of each light of its own
    ledFile,            \* ledFile[c]: brightness, trigger and delays of an LED
    dimAsked            \* history: the state last written to each dimFile

lightVars == <<g_lock, g_light, callerAt, asks, writes, dimFile, ledFile, dimAsked>>

NoAsk == [light |-> "battery", state |-> Dark]

LightsInit ==
    /\ g_lock = {}
    /\ g_light = [l \in Shared |-> Dark]
    /\ callerAt = [t \in LightCallers |-> "idle"]
    /\ asks = [t \in LightCallers |-> NoAsk]
    /\ writes = [t \in LightCallers |-> <<>>]
    /\ dimFile = [l \in Dimmed |-> 0]
    /\ ledFile = [c \in {"red", "green", "blue"} |->
                    [brightness |-> 0, trigger |-> "none", delays |-> <<0, 0>>]]
    /\ dimAsked = [l \in Dimmed |-> Dark]

-----------------------------------------------------------------------------
(* Colours. *)

is_lit(s) == s.color.red + s.color.green + s.color.blue # 0

rgb_to_brightness(s) ==
    (77 * s.color.red + 150 * s.color.green + 29 * s.color.blue) \div 256

brightness_apply_gamma(b) ==
    IF Gamma(b) < LCD_BRIGHTNESS_MIN THEN LCD_BRIGHTNESS_MIN ELSE Gamma(b)

(* Only the panel is gamma corrected, and only when it is lit. *)
DimValue(light, s) ==
    IF light = "backlight" /\ rgb_to_brightness(s) > 0
    THEN brightness_apply_gamma(rgb_to_brightness(s))
    ELSE rgb_to_brightness(s)

-----------------------------------------------------------------------------
(* The shared LED. *)

(* A flash of one millisecond means none: the stored state is changed. *)
Flash(s) == IF s.flashOnMS = 1 THEN [s EXCEPT !.flashMode = "NONE"] ELSE s

TriggerWrites(s, c) ==
    IF s.flashMode = "NONE" THEN <<[led |-> c, file |-> "trigger", to |-> "none"]>>
    ELSE <<[led |-> c, file |-> "trigger", to |-> "timer"],
           [led |-> c, file |-> "delays", to |-> <<s.flashOnMS, s.flashOffMS>>]>>

(* set_shared_light_locked: the triggers of the three LEDs, then their     *)
(* brightness.                                                             *)
SharedWrites(s) ==
    TriggerWrites(s, Leds[1]) \o TriggerWrites(s, Leds[2])
    \o TriggerWrites(s, Leds[3])
    \o [i \in 1 .. 3 |-> [led |-> Leds[i], file |-> "brightness",
                          to |-> s.color[Leds[i]]]]

(* handle_shared_battery_locked: the notification wins while it is lit. *)
SharedLight(lights) ==
    IF is_lit(lights["notifications"]) THEN "notifications" ELSE "battery"

(* set_light_battery and set_light_notifications, with g_lock taken: the   *)
(* state is stored and the writes of the light that shows are begun.       *)
SetShared(t) ==
    LET stored == [g_light EXCEPT ![asks[t].light] = asks[t].state]
        shows == SharedLight(stored)
    IN  /\ g_light' = [stored EXCEPT ![shows] = Flash(@)]
        /\ writes' = [writes EXCEPT ![t] = SharedWrites(Flash(stored[shows]))]
        /\ UNCHANGED <<dimFile, dimAsked>>

(* set_light_backlight, _buttons and _keyboard: one write. *)
SetDimmed(t) ==
    /\ dimFile' = [dimFile EXCEPT ![asks[t].light] =
                    DimValue(asks[t].light, asks[t].state)]
    /\ dimAsked' = [dimAsked EXCEPT ![asks[t].light] = asks[t].state]
    /\ UNCHANGED <<g_light, writes>>

-----------------------------------------------------------------------------
(* The callers. *)

LightCall(t) ==
    /\ callerAt[t] = "idle"
    /\ \E l \in Dimmed \union Shared, s \in LightStates :
        asks' = [asks EXCEPT ![t] = [light |-> l, state |-> s]]
    /\ callerAt' = [callerAt EXCEPT ![t] = "wait"]
    /\ UNCHANGED <<g_lock, g_light, writes, dimFile, ledFile, dimAsked>>

(* Mutant: the lock is not waited for. *)
LightNoLock(t) ==
    /\ callerAt[t] = "wait"
    /\ g_lock' = {t}
    /\ callerAt' = [callerAt EXCEPT ![t] = "locked"]
    /\ \/ asks[t].light \in Shared /\ SetShared(t)
       \/ asks[t].light \in Dimmed /\ SetDimmed(t)
    /\ UNCHANGED <<asks, ledFile>>

LightLock(t) ==
    /\ callerAt[t] = "wait" /\ g_lock = {}
    /\ g_lock' = {t}
    /\ callerAt' = [callerAt EXCEPT ![t] = "locked"]
    /\ \/ asks[t].light \in Shared /\ SetShared(t)
       \/ asks[t].light \in Dimmed /\ SetDimmed(t)
    /\ UNCHANGED <<asks, ledFile>>

(* What one write does to an LED. *)
Written(led, w) ==
    IF w.file = "delays" /\ led.trigger # "timer" THEN led
    ELSE [led EXCEPT ![w.file] = w.to]

LightWrite(t) ==
    /\ writes[t] # <<>>
    /\ LET w == Head(writes[t])
       IN  ledFile' = [ledFile EXCEPT ![w.led] = Written(@, w)]
    /\ writes' = [writes EXCEPT ![t] = Tail(@)]
    /\ UNCHANGED <<g_lock, g_light, callerAt, asks, dimFile, dimAsked>>

LightUnlock(t) ==
    /\ callerAt[t] = "locked" /\ writes[t] = <<>>
    /\ g_lock' = g_lock \ {t}
    /\ callerAt' = [callerAt EXCEPT ![t] = "idle"]
    /\ asks' = [asks EXCEPT ![t] = NoAsk]
    /\ UNCHANGED <<g_light, writes, dimFile, ledFile, dimAsked>>

LightsNext ==
    \E t \in LightCallers :
        LightCall(t) \/ LightLock(t) \/ LightWrite(t) \/ LightUnlock(t)

-----------------------------------------------------------------------------
(* What the lights show. *)

(* Whenever nobody is inside g_lock the LED shows the notification if that *)
(* is lit and the battery's light otherwise, in all three colours and with *)
(* its flashing, whatever the callers asked for before and in which order; *)
(* and each other light is dark exactly when the last call that got the    *)
(* lock asked for that: the gamma correction never puts out the panel.     *)
LightsShown ==
    g_lock = {} =>
        /\ LET s == g_light[SharedLight(g_light)]
           IN  \A c \in DOMAIN ledFile :
                /\ ledFile[c].brightness = s.color[c]
                /\ ledFile[c].trigger =
                    IF s.flashMode # "NONE" /\ s.flashOnMS # 1 THEN "timer" ELSE "none"
                /\ ledFile[c].trigger = "timer" =>
                    ledFile[c].delays = <<s.flashOnMS, s.flashOffMS>>
        /\ \A l \in Dimmed :
            dimFile[l] # 0 <=> rgb_to_brightness(dimAsked[l]) # 0
=============================================================================
