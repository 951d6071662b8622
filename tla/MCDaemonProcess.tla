-------------------------- MODULE MCDaemonProcess ---------------------------
\* Small instances of DaemonProcess, and of the DeviceAuth it extends.
EXTENDS DaemonProcess
=============================================================================
