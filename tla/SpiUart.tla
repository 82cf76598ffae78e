------------------------------ MODULE SpiUart -------------------------------
(***************************************************************************)
(* Writing a string to a serial port behind the SPI bus                    *)
(* (lib/libbase/rpi_gpio.c): spi_uart_puts, which is given the length, and *)
(* spi_uart_puts_ntm, for strings that end in a null.  Both read the room  *)
(* in the port's FIFO, send at most that many bytes behind a header in one *)
(* transfer of three-byte words, and go round, while the port empties its  *)
(* FIFO at a pace of its own.                                              *)
(***************************************************************************)
EXTENDS Integers, Sequences, FiniteSets, FiniteSetsExt

CONSTANTS
  SpiFifoCap,    \* bytes the port's FIFO holds
  TempCap,       \* the buffer of a transfer, header included (32)
  MaxString      \* the longest string written

ASSUME SpiAssumption == {SpiFifoCap, TempCap, MaxString} \subseteq Nat \ {0}

VARIABLES spi    \* see SpiInit

spivars == <<spi>>

SpiInit ==
  \E f \in {"puts", "puts_ntm"}, n \in 0 .. MaxString, used \in 0 .. SpiFifoCap :
    spi = [call |-> f, blen |-> n, at |-> "level", tlen |-> 0, bidx |-> 0,
           fifo |-> used, sent |-> 0, lost |-> 0,
           full |-> FALSE,   \* some reading met a full FIFO
           room |-> 0]       \* bytes the transfers so far could have carried

\* Mutant of ReadLevel: the transfer is as long as the buffer, whatever room the
\* port has.
MutReadLevel ==
  /\ spi.at = "level"
  /\ spi' = [spi EXCEPT !.at = "send", !.tlen = TempCap, !.full = @ \/ spi.fifo = SpiFifoCap]

\* spi_uart_read_register(.., UART_TXLVL), at most the buffer's size.
ReadLevel ==
  /\ spi.at = "level"
  /\ spi' = [spi EXCEPT !.at = "send", !.tlen = Min({SpiFifoCap - spi.fifo, TempCap}),
                        !.full = @ \/ spi.fifo = SpiFifoCap]

\* The bytes of the next transfer: tidx runs from 1 to below tlen.
ChunkLen == Max({0, Min({spi.tlen - 1, spi.blen - spi.bidx})})

\* puts goes on until it has sent blen bytes; puts_ntm until a transfer does not
\* fill the room there was, which it takes for the end of the string.
MoreToSend(n) ==
  IF spi.call = "puts" THEN spi.bidx + n # spi.blen ELSE 1 + n = spi.tlen

\* spi_send_recv: the FIFO drops what it has no room for.
spi_send_recv ==
  LET n == ChunkLen
      fit == Min({n, SpiFifoCap - spi.fifo})
      cap == Max({0, spi.tlen - 1})
  IN  /\ spi.at = "send"
      /\ spi' = [spi EXCEPT !.bidx = @ + n, !.fifo = @ + fit, !.sent = @ + fit, !.lost = @ + n - fit,
                            !.room = @ + cap, !.at = IF MoreToSend(n) THEN "level" ELSE "done"]

\* The port sends a byte of its FIFO.
SpiDrain == spi.fifo > 0 /\ spi' = [spi EXCEPT !.fifo = @ - 1]

SpiNext == ReadLevel \/ spi_send_recv \/ SpiDrain

SpiSpec == SpiInit /\ [][SpiNext]_spivars

SpiFairness == WF_spivars(ReadLevel \/ spi_send_recv) /\ WF_spivars(SpiDrain)

-----------------------------------------------------------------------------
(* Properties                                                              *)

\* What has been written is what the transfers had room for, from the first byte
\* of the string on, and no transfer overruns the FIFO, however its draining
\* falls between reading the room and sending.  spi_uart_puts returns only with
\* the whole string, and so does spi_uart_puts_ntm, unless a reading meets a full
\* FIFO: it takes the transfer it could then not make for the end of the string,
\* which is cut to what was written before.
StringWritten ==
  /\ spi.lost = 0 /\ spi.sent = Min({spi.blen, spi.room})
  /\ spi.at = "done" => IF spi.call = "puts_ntm" /\ spi.full THEN spi.tlen = 0
                                                           ELSE spi.sent = spi.blen

\* Both calls return.
PutsReturns == <>(spi.at = "done")
=============================================================================
