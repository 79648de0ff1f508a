-------------------------------- MODULE Uart --------------------------------
(***************************************************************************)
(* pl011_uart.c: the console that info and fatal print to, and the UART    *)
(* behind it.  The driver waits for room in the transmitter, but not       *)
(* longer than MaxWait reads of the flag register, so that a UART nobody   *)
(* drains cannot stop a boot.  The FIFO is disabled: the transmitter holds *)
(* one character.                                                          *)
(***************************************************************************)
EXTENDS Integers, Sequences

CONSTANT MaxWait   \* 100000

ASSUME MaxWaitAssumption == MaxWait \in Nat

VARIABLES
  unsent,    \* what uart_puts and nano_putc have still to print
  polls,     \* the loop counter of uart_putc
  dr,        \* UART_DR: <<>>, or the one character in the transmitter
  line,      \* external: what left the UART
  lost,      \* history: characters stored into a full transmitter
  timeouts   \* history: waits that ran to their end

uart == <<unsent, polls, dr, line, lost, timeouts>>

\* UART_FR & (1 << 5)
TXFF == dr # <<>>

\* The processor and the UART have been reset, and uart_init has run.
uart_init ==
  /\ unsent = <<>> /\ polls = 0
  /\ dr = <<>> /\ line = <<>>
  /\ lost = 0 /\ timeouts = 0

uart_puts(s) ==
  /\ unsent' = s
  /\ UNCHANGED <<polls, dr, line, lost, timeouts>>

\* Mutant of PutcWaits: waits as long as it takes.
PutcWaitsForever ==
  /\ unsent # <<>>
  /\ TXFF
  /\ UNCHANGED <<unsent, polls, dr, line, lost, timeouts>>

\* uart_putc: a turn of the loop.
PutcWaits ==
  /\ unsent # <<>>
  /\ polls < MaxWait /\ TXFF
  /\ polls' = polls + 1
  /\ UNCHANGED <<unsent, dr, line, lost, timeouts>>

\* Mutant of PutcStores: does not wait.
PutcStoresAtOnce ==
  /\ unsent # <<>>
  /\ unsent' = Tail(unsent) /\ polls' = 0
  /\ timeouts' = IF polls = MaxWait THEN timeouts + 1 ELSE timeouts
  /\ dr' = <<Head(unsent)>>
  /\ lost' = IF TXFF THEN lost + 1 ELSE lost
  /\ UNCHANGED line

\* uart_putc: the loop ends and the character goes to UART_DR.  If that was
\* full, either it or the character in it is lost.  A wait whose last turn found
\* room counts as a timeout, although it loses nothing.
PutcStores ==
  /\ unsent # <<>>
  /\ polls = MaxWait \/ ~TXFF
  /\ unsent' = Tail(unsent) /\ polls' = 0
  /\ timeouts' = IF polls = MaxWait THEN timeouts + 1 ELSE timeouts
  /\ IF TXFF THEN dr' \in {dr, <<Head(unsent)>>} /\ lost' = lost + 1
     ELSE dr' = <<Head(unsent)>> /\ UNCHANGED lost
  /\ UNCHANGED line

\* External: the UART sends what the transmitter holds.
Transmit ==
  /\ TXFF
  /\ line' = line \o dr /\ dr' = <<>>
  /\ UNCHANGED <<unsent, polls, lost, timeouts>>

=============================================================================
