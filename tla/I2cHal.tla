------------------------------- MODULE I2cHal --------------------------------
(***************************************************************************)
(* The operations of the two hardware backends of i2cctrl on a bus: a      *)
(* record of the target address, the command FIFO, the receive FIFO, the   *)
(* raised interrupt causes and, per address, the register a read takes     *)
(* next.  The DesignWare backend queues commands that the controller       *)
(* serves in its own time; the ACPI backend runs a transfer per call.      *)
(* A byte read is the pair of its address and register.                    *)
(***************************************************************************)
EXTENDS Naturals, Sequences

HalIdle(addresses) ==
    [tar |-> 0, tx |-> <<>>, rx |-> <<>>, raw |-> {}, next |-> [a \in addresses |-> 0],
     on |-> TRUE,             \* the controller is enabled
     ok |-> TRUE]             \* AcpiLastStatus

HalNothing == <<0, 0>>       \* what an empty receive FIFO reads

-----------------------------------------------------------------------------
(* hal_dw.c.  Nothing here waits or fails.                                 *)
DwSetTarget7bit(b, a) == [b EXCEPT !.tar = a]

DwCommands(b, kind, reg, n) ==
    IF b.on THEN [b EXCEPT !.tx = @ \o [k \in 1..n |-> [to |-> b.tar, do |-> kind, reg |-> reg]]]
    ELSE b                   \* a disabled controller keeps its FIFOs empty

DwCommand(b, kind, reg) == DwCommands(b, kind, reg, 1)

DwEnable(b, on) ==
    IF on THEN [b EXCEPT !.on = TRUE] ELSE [b EXCEPT !.on = FALSE, !.tx = <<>>, !.rx = <<>>]

DwIssueWriteByte(b, reg) == DwCommand(b, "write", reg)
DwIssueReadToken(b) == DwCommand(b, "read", 0)
DwPrimeReadTokens(b, n) == DwCommands(b, "read", 0, n)

DwReadRxByte(b) ==           \* does not look whether there is one
    IF b.rx = <<>> THEN [byte |-> HalNothing, bus |-> b]
    ELSE [byte |-> Head(b.rx), bus |-> [b EXCEPT !.rx = Tail(@)]]

DwGetStatus(b) ==            \* neither StopDetected nor TxAborted is ever filled in
    [rxNotEmpty |-> b.rx # <<>>, txNotFull |-> b.tx = <<>>,
     abort |-> "abort" \in b.raw, stop |-> "stop" \in b.raw]

DwAckInterrupts(b) == [b EXCEPT !.raw = {}]
DwDrainRxBounded(b) == [b EXCEPT !.rx = <<>>]
DwFlushed(b) == b.tx = <<>>  \* FlushTxBounded returns only then

DwEmitStop(b) == DwCommand(b, "stop", 0)   \* with a data byte of 0

(* The controller serves the oldest command.  Nobody at the address: it    *)
(* aborts, and drops commands until the abort is acknowledged.  A FIFO that *)
(* runs empty ends the transaction with a stop.                            *)
DwServe(b, present) ==
    LET c == Head(b.tx)
        rest == [b EXCEPT !.tx = Tail(@),
                          !.raw = IF Len(b.tx) = 1 THEN @ \cup {"stop"} ELSE @]
    IN IF "abort" \in b.raw THEN [b EXCEPT !.tx = <<>>]
       ELSE IF c.to \notin present THEN [b EXCEPT !.tx = <<>>, !.raw = @ \cup {"abort"}]
       ELSE CASE c.do = "write" -> [rest EXCEPT !.next[c.to] = c.reg]
              [] c.do = "read" -> [rest EXCEPT !.rx = Append(@, <<c.to, b.next[c.to]>>),
                                               !.next[c.to] = @ + 1]
              [] c.do = "data" -> rest
              [] c.do = "stop" -> [rest EXCEPT !.raw = @ \cup {"stop"}]

-----------------------------------------------------------------------------
(* hal_acpi.c.  A read token only counts, the status never reports a byte. *)
AcpiGetStatus(b) ==
    [rxNotEmpty |-> FALSE, txNotFull |-> b.ok, abort |-> ~b.ok, stop |-> b.ok]

AcpiDone(b, ok) == [b EXCEPT !.ok = ok]

AcpiIssueWriteByte(b, reg, present) ==     \* the buses it can leave
    {AcpiDone(b, FALSE)} \cup
    {AcpiDone([b EXCEPT !.next[a] = reg], TRUE) : a \in {b.tar} \cap present}
=============================================================================
