------------------------------ MODULE MCConsole ------------------------------
(* Small instances of Wizards, and of Activation within it, for TLC. *)
EXTENDS Wizards

Modes == {"askMode", "confirmMode", "setPaper", "enable", "disable", "webEnable", "webDisable",
          "drift", "fallback", "kill", "other"}
Starts == {"presetActivate", "presetStop", "presetResume", "activateP5", "mvpStart", "mvpResume",
           "toggleOn", "toggleOff", "pause", "stopAuto", "lock", "lockBot", "unlock",
           "kill", "admin", "webToggleOn", "webToggleOff", "webPreset", "webKill", "webResume"}
Preset  == {"preset", "webValues"}
Auto    == {"p5", "webValues"}
Typed   == {"settings", "webValues"}
Copies  == {"copyNew", "webTask"}
Desk    == {"task", "webTask"}
AllScopes == {Modes, Starts, Preset, Auto, Typed, Copies, Desk}

CopyOptions == [nickname |-> {"n"}, wallet |-> {"w"}, direction |-> {"buys_only"},
                type |-> {"fixed", "percentage"}, amount |-> {10}, mode |-> {"auto"},
                slippage |-> {5}, topups |-> {TRUE}]
=============================================================================
