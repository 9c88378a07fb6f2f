--------------------------- MODULE MCProgramZones ---------------------------
(* Finite instances of ProgramZones for TLC.                                *)
EXTENDS ProgramZones

(* A sequence whose loop takes the normal course, and one of each way to    *)
(* end in an exception; workers can be three elements ahead.                *)
ProgramSequences ==
    { << "good", "end" >>, << "badCurrent", "good", "badNext" >>,
      << "badValid", "end" >>, << >> }

(* Bound: the second loop's sequence is a short one.                        *)
MaxSecond == 2
ShortPrograms == Len(program[2]) <= MaxSecond
=============================================================================
