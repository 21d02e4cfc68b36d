------------------------------- MODULE UsbPid -------------------------------
(***************************************************************************)
(* The packet identifiers of usbdrv.h, shared by endpoint 0 (UsbDrv) and   *)
(* the interrupt-in endpoint (UsbIntr) of the V-USB driver.                *)
(***************************************************************************)
EXTENDS Naturals

USBPID_SETUP == 45
USBPID_OUT == 225
USBPID_DATA0 == 195
USBPID_DATA1 == 75
USBPID_ACK == 210
USBPID_NAK == 90
USBPID_STALL == 30

\* sbrc cnt, 4: every handshake token has bit 4 set, no packet length has.
IsHandshake(n) == (n \div 16) % 2 = 1

\* usbBuildTxBlock and usbSetInterrupt: XOR with DATA0 ^ DATA1.
Toggle(p) == IF p = USBPID_DATA0 THEN USBPID_DATA1 ELSE USBPID_DATA0
=============================================================================
