------------------------------ MODULE MCDriver ------------------------------
(* The driver layer with the three drivers of the build (link order NAND,   *)
(* UART, LED), two board slots and short lists of calls.                    *)
EXTENDS DriverProps

MCDrivers == <<"NAND", "UART", "LED">>
MCOps == << {"open", "read"}, {"open", "write"}, {"open", "write"} >>
MCNames == {"mini2440", "other", "forbid", "NAND", "UART", "LED", "TTY", "T", "TTYS"}
MCStartsWith == {<<n, n>> : n \in MCNames}
                  \cup {<<"TTY", "T">>, <<"TTYS", "T">>, <<"TTYS", "TTY">>}

Reg(c, d, n) == [class |-> c, driver |-> d, device |-> n]
Path(b, c, n) == [board |-> b, class |-> c, device |-> n]

(* What user_main does, and an LED beside it. *)
BootRegistrations == {Reg("CPU", "UART", "TTY"), Reg("NAND", "NAND", "NAND"),
                      Reg("CPU", "LED", "LED")}
BootPaths == {Path("mini2440", "CPU", "TTY"), Path("mini2440", "NAND", "NAND"),
              Path("mini2440", "CPU", "LED"), Path("mini2440", "?", "LED"),
              Path("other", "CPU", "TTY")}

(* Names that are prefixes of one another, drivers under several names, and *)
(* registrations that fail after they have renamed the device.              *)
AnyRegistrations == {Reg("CPU", "UART", "TTY"), Reg("CPU", "UART", "TTYS"),
                     Reg("CPU", "LED", "T"), Reg("CPU", "LED", "TTY"),
                     Reg("RAM", "LED", "LED"), Reg("NAND", "NAND", "NAND"),
                     Reg("NAND", "NAND", "T"), Reg("RAM", "T", "T")}
AllPaths == BootPaths \cup [board : {"mini2440"}, class : {"CPU", "RAM", "NAND"},
                           device : {"T", "TTY", "TTYS", "LED", "NAND"}]

(* The calls of both configurations are such as the proofs assume.          *)
ASSUME CallersAssumption == ConsoleCalls
=============================================================================
