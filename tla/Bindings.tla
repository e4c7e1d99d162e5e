------------------------------ MODULE Bindings ------------------------------
(***************************************************************************)
(* The functions of the bricklets (libtinkerforge/bindings/bricklet_*.c)   *)
(* and of the Brick Daemon (ip_connection.c), by their function IDs.       *)
(* All functions are alike: they create a header, send a request, and hand *)
(* on the result.  Those that give device_send_request a response and copy *)
(* out of it are the getters.  A setting has a setter, and a getter with   *)
(* the next ID.                                                            *)
(***************************************************************************)
EXTENDS ResponseExpected, TLC

GettersOf(settings) == {f + 1 : f \in settings}
Identity == {255}

TemperatureValues == {1}
TemperatureSettings == {2, 4, 6}       \* period, threshold, debounce period
TemperatureModes == {10}

HumidityValues == {1, 2}
HumidityPeriods == {3, 5}
HumidityThresholds == {7, 9, 11}       \* and the debounce period

AmbientLightValues == {1, 2}
AmbientLightPeriods == {3, 5}
AmbientLightThresholds == {7, 9, 11}

DistanceValues == {1, 2}
DistanceSampling == {3}
DistancePeriods == {5, 7}
DistanceThresholds == {9, 11, 13}

LcdCommands == {1, 2, 3, 4}            \* write_line, clear_display, backlight_on and off
LcdStates == {5, 8}                    \* is_backlight_on, is_button_pressed
LcdConfig == {6}
LcdTexts == {11, 13, 15}               \* custom character, default text and its counter

DaemonGetters == {1}
DaemonSetters == {2}

BindingsSetters ==
    [temperature |-> TemperatureSettings \cup TemperatureModes,
     humidity |-> HumidityPeriods \cup HumidityThresholds,
     ambient_light |-> AmbientLightPeriods \cup AmbientLightThresholds,
     distance_ir |-> DistanceSampling \cup DistancePeriods \cup DistanceThresholds,
     lcd_20x4 |-> LcdCommands \cup LcdConfig \cup LcdTexts,
     brickd |-> DaemonSetters]

BindingsGetters ==
    [temperature |-> TemperatureValues \cup GettersOf(TemperatureSettings \cup TemperatureModes) \cup Identity,
     humidity |-> HumidityValues \cup GettersOf(HumidityPeriods \cup HumidityThresholds) \cup Identity,
     ambient_light |-> AmbientLightValues \cup GettersOf(AmbientLightPeriods \cup AmbientLightThresholds)
                        \cup Identity,
     distance_ir |-> DistanceValues \cup Identity
                        \cup GettersOf(DistanceSampling \cup DistancePeriods \cup DistanceThresholds),
     lcd_20x4 |-> LcdStates \cup GettersOf(LcdConfig \cup LcdTexts) \cup Identity,
     brickd |-> DaemonGetters]

-----------------------------------------------------------------------------
(* The flags the create functions set.                                      *)
FlagTable(always, on, off) ==
    [f \in always |-> "always_true"] @@ [f \in on |-> "true"] @@ [f \in off |-> "false"]

TemperatureDefault == FlagTable({1, 3, 5, 7, 11, 255}, {2, 4, 6}, {10})
HumidityDefault == FlagTable({1, 2, 4, 6, 8, 10, 12, 255}, {3, 5, 7, 9, 11}, {})
AmbientLightDefault == FlagTable({1, 2, 4, 6, 8, 10, 12, 255}, {3, 5, 7, 9, 11}, {})
DistanceDefault == FlagTable({1, 2, 4, 6, 8, 10, 12, 14, 255}, {5, 7, 9, 11, 13}, {3})
LcdDefault == FlagTable({5, 7, 8, 12, 14, 16, 255}, {}, {1, 2, 3, 4, 6, 11, 13, 15})
DaemonDefault == FlagTable({1}, {2}, {})

BindingsDefault ==
    [temperature |-> TemperatureDefault, humidity |-> HumidityDefault,
     ambient_light |-> AmbientLightDefault, distance_ir |-> DistanceDefault,
     lcd_20x4 |-> LcdDefault, brickd |-> DaemonDefault]

BindingsDevices == DOMAIN BindingsDefault
=============================================================================
