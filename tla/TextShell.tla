----------------------------- MODULE TextShell -----------------------------
(***************************************************************************)
(* kernel/kernel.c around the desktop: the start of the kernel, the switch *)
(* between graphics and text mode with the interrupt masks it sets, and    *)
(* the text shell that keyboard_isr runs once ESC has left the desktop.    *)
(*                                                                         *)
(* The shell works inside keyboard_isr.  Its `gui` command runs the whole  *)
(* desktop there, with interrupts enabled and before the end of the        *)
(* interrupt has been signalled to the PIC.  Every other key is one step.  *)
(*                                                                         *)
(* What is kept is what decides whether a key gets through.  The screen is *)
(* left out, and so is the prompt that kernel_main prints while keys may   *)
(* already interrupt it.  Of the input only the length is kept: a command  *)
(* is one whose name has that length.                                      *)
(***************************************************************************)
EXTENDS Naturals

CONSTANT InputMax       \* 79, the characters input_buffer takes

ASSUME ShellAssumption == InputMax \in Nat \ {0}

VARIABLES
    buf_len,
    unmasked,       \* which of the IRQs 0, 1, 2 and 12 the PICs let through
    interrupts,     \* IF of the processor
    in_service,     \* IRQ1 has been taken and not ended
    mouse_byte,     \* the controller holds a byte of the mouse for port 0x60
    depth,          \* how many calls of keyboard_handler are under way
    pc              \* "boot", "gui", "left" (ESC in the gui command), "shell"
                    \* or "hung"

shellVars == <<buf_len, unmasked, interrupts, in_service, mouse_byte, depth, pc>>

ShellTypeOK ==
    /\ buf_len \in 0 .. InputMax
    /\ unmasked \in SUBSET {0, 1, 2, 12}
    /\ interrupts \in BOOLEAN /\ in_service \in BOOLEAN /\ mouse_byte \in BOOLEAN
    /\ depth \in Nat
    /\ pc \in {"boot", "gui", "left", "shell", "hung"}

\* boot.asm: the masks 0xFD and 0xEF leave IRQ1 and IRQ12, but not IRQ2, on
\* which the second PIC is.
ShellInit ==
    /\ buf_len = 0
    /\ unmasked = {1, 12}
    /\ interrupts = FALSE /\ in_service = FALSE /\ mouse_byte = FALSE
    /\ depth = 0 /\ pc = "boot"

-----------------------------------------------------------------------------
(* Switching modes. *)

\* init_vga_mode13: polling instead of IRQ1 and IRQ12, the controller is
\* drained, the mouse sends from now on, then sti.
GraphicsMode ==
    /\ unmasked' = unmasked \ {1, 12}
    /\ mouse_byte' = FALSE
    /\ interrupts' = TRUE

\* restore_text_mode, with its sti.
TextMode ==
    /\ unmasked' = unmasked \union {1, 12}
    /\ interrupts' = TRUE

\* kernel_main: straight to the desktop.
Boot ==
    /\ pc = "boot" /\ pc' = "gui"
    /\ GraphicsMode
    /\ UNCHANGED <<buf_len, in_service, depth>>

\* ESC: run_gui_loop returns to dispatch_command, or to kernel_main, which shows
\* the prompt and idles; what the loop has not read by then may be the mouse's.
LeaveGui ==
    /\ pc = "gui" /\ pc' = IF depth > 0 THEN "left" ELSE "shell"
    /\ TextMode
    /\ UNCHANGED <<buf_len, in_service, mouse_byte, depth>>

\* dispatch_command returns, and its interrupt ends.
GuiCommandEnds ==
    /\ pc = "left" /\ pc' = "shell"
    /\ buf_len' = 0
    /\ depth' = depth - 1 /\ in_service' = FALSE
    /\ UNCHANGED <<unmasked, interrupts, mouse_byte>>

\* The mouse is moved.  IRQ12 could come through IRQ2 only, and has no handler,
\* so nothing reads the byte.
MouseByte ==
    /\ pc \in {"left", "shell"} /\ ~mouse_byte
    /\ mouse_byte' = TRUE
    /\ UNCHANGED <<buf_len, unmasked, interrupts, in_service, depth, pc>>

-----------------------------------------------------------------------------
(* keyboard_isr. *)

\* The PIC and the processor let IRQ1 through.
KeyPasses == interrupts /\ 1 \in unmasked /\ ~in_service

\* The controller raises it only when it can put the scancode into port 0x60.
KeyIrq == KeyPasses /\ ~mouse_byte /\ pc # "hung"

\* keyboard_handler for a key that leaves it within the interrupt.
Key(len) ==
    /\ KeyIrq
    /\ buf_len' = len
    /\ UNCHANGED <<unmasked, interrupts, in_service, mouse_byte, depth, pc>>

TypeCharacter == buf_len < InputMax /\ Key(buf_len + 1)
TypeBackspace == buf_len > 0 /\ Key(buf_len - 1)

\* Every command but gui and reboot only prints.
Enter == Key(0)

GuiCommand_Mut ==
    /\ KeyIrq /\ buf_len = 3
    /\ pc' = "gui"
    /\ depth' = depth + 1 /\ in_service' = FALSE
    /\ GraphicsMode
    /\ UNCHANGED buf_len
\* gui: the interrupt stays in service while the desktop runs.
GuiCommand ==
    /\ KeyIrq /\ buf_len = 3
    /\ pc' = "gui"
    /\ depth' = depth + 1 /\ in_service' = TRUE
    /\ GraphicsMode
    /\ UNCHANGED buf_len

\* reboot: the machine restarts, or hangs in the interrupt.
Restart ==
    /\ buf_len' = 0
    /\ unmasked' = {1, 12}
    /\ interrupts' = FALSE /\ in_service' = FALSE /\ mouse_byte' = FALSE
    /\ depth' = 0 /\ pc' = "boot"
Hang ==
    /\ pc' = "hung" /\ in_service' = TRUE /\ depth' = depth + 1
    /\ interrupts' = FALSE
    /\ UNCHANGED <<buf_len, unmasked, mouse_byte>>
Reboot == KeyIrq /\ buf_len = 6 /\ (Restart \/ Hang)

ShellNext ==
    \/ Boot \/ LeaveGui \/ GuiCommandEnds \/ MouseByte
    \/ TypeCharacter \/ TypeBackspace \/ Enter \/ GuiCommand \/ Reboot

ShellSpec == ShellInit /\ [][ShellNext]_shellVars

-----------------------------------------------------------------------------
(* Properties. *)

\* keyboard_handler is not reentered: input_buffer has no lock, and interrupts
\* are enabled while the desktop runs inside it and when that has ended.
HandlerNotReentered == depth > 0 => ~KeyPasses

\* Whenever the shell waits for a key, the masks, the interrupt flag and the
\* end of the interrupt have come out right together, after any number of
\* visits to the desktop: neither the PIC nor the processor holds a key back.
KeysPass == pc = "shell" => KeyPasses /\ depth = 0

\* The handler runs once at a time, within its buffer, and the shell is open for
\* keys.
ShellSound == ShellTypeOK /\ HandlerNotReentered /\ KeysPass

\* kernel_main: "Safe recovery fallback to text command shell if GUI loop exits
\* (ESC pressed)", then "Re-enable interrupts for keyboard text input".
ShellHearsKeys == pc = "shell" => KeyIrq

=============================================================================
